---- MODULE Spec2Model ----
(***************************************************************************)
(* Native elliptic-curve gadgets over a PLONKish table (halo2-native-ecc). *)
(*                                                                         *)
(* The table has two advice columns a and b, the selectors q_ec_disabled,  *)
(* q1 and q2, copy constraints and one row cursor (offset) that every      *)
(* gadget call advances.  A gadget call is a function from the synthesis   *)
(* state to the synthesis state; a test circuit is a fixed sequence of     *)
(* gadget calls; verification evaluates the aggregated gate on every row   *)
(* and checks every copy constraint, as the mock prover does.              *)
(*                                                                         *)
(* The circuit field is scaled to the prime field of 19 elements: over it  *)
(* y^2 = x^3 - 17 has 13 points, a group of prime order as Grumpkin's is.  *)
(***************************************************************************)
EXTENDS Integers, Sequences, FiniteSets, TLC

(***************************************************************************)
(* The circuit field Fq and the curve.                                     *)
(***************************************************************************)
P == 19

F == 0 .. (P - 1)

\* F::from(u64) / F::from_u128: the embedding of an unsigned integer.
FromU(n) == n % P

\* reduction of an integer polynomial value into the field
Red(n) == n % P

FNeg(x) == (P - x) % P

FInv(x) == CHOOSE y \in F : (x * y) % P = 1

\* the curve constant: -F::from(17)
curve_param_b == FNeg(FromU(17))

\* the bit width of one byte (u8)
ByteBits == 8

\* number of bytes of a "u128" (16 in the program)
U128Bytes == 1

U128Bits == ByteBits * U128Bytes

\* bits absorbed by one partial decomposition
BitsPerRound == 4

\* rounds of decompose_u128 (32 in the program: 128 / 4)
Rounds == U128Bits \div BitsPerRound

RECURSIVE Pow2(_)
Pow2(n) == IF n = 0 THEN 1 ELSE 2 * Pow2(n - 1)

U128 == 0 .. (Pow2(U128Bits) - 1)

(***************************************************************************)
(* The synthesis state: region (cells, selectors, constraints), the row    *)
(* cursor, and whether a gadget call has panicked.                         *)
(***************************************************************************)
VARIABLES
    region,     \* tbl, writes, q_ec_disabled, q1, q2, copies, consts
    offset,     \* the caller-held row cursor
    panicked,   \* a gadget call hit an assertion or an unwrap of None
    pc,         \* position in the circuit's synthesize
    inp,        \* the circuit's inputs (its struct fields)
    out         \* handles returned by the gadget calls made so far

vars == <<region, offset, panicked, pc, inp, out>>

EmptyRegion ==
    [tbl |-> <<>>, writes |-> <<>>,
     q_ec_disabled |-> {}, q1 |-> {}, q2 |-> {},
     copies |-> {}, consts |-> {}]

\* the state a gadget call works on
Cur == [reg |-> region, offset |-> offset, panicked |-> panicked]

Commit(S) ==
    /\ region' = S.reg
    /\ offset' = S.offset
    /\ panicked' = S.panicked

\* a cell handle
CellAt(col, row) == <<col, row>>

\* the value the prover reads in a cell; an unassigned cell reads as zero
Val(S, c) == IF c \in DOMAIN S.reg.tbl THEN S.reg.tbl[c] ELSE 0

A(S, r) == Val(S, CellAt("a", r))
B(S, r) == Val(S, CellAt("b", r))

\* Selector query: 1 where enabled, 0 elsewhere
Sel(S, name, r) == IF r \in S.reg[name] THEN 1 ELSE 0

\* region.assign_advice
AssignAdvice(S, col, row, v) ==
    LET c == CellAt(col, row)
        n == IF c \in DOMAIN S.reg.writes THEN S.reg.writes[c] ELSE 0
    IN  [S EXCEPT !.reg.tbl = (c :> v) @@ @,
                  !.reg.writes = (c :> (n + 1)) @@ @]

\* Selector::enable
Enable(S, name, row) == [S EXCEPT !.reg[name] = @ \cup {row}]

\* region.constrain_equal
ConstrainEqual(S, c1, c2) == [S EXCEPT !.reg.copies = @ \cup {<<c1, c2>>}]

\* region.constrain_constant
ConstrainConstant(S, c, v) == [S EXCEPT !.reg.consts = @ \cup {<<c, v>>}]

Panic(S) == [S EXCEPT !.panicked = TRUE]

(***************************************************************************)
(* The per-opcode polynomials (config.rs), evaluated at row r.             *)
(***************************************************************************)
conditional_ec_add_gate(S, r) ==
    LET one == 1
        a0 == A(S, r)
        b0 == B(S, r)
        a1 == A(S, r + 1)
        b1 == B(S, r + 1)
        condition == A(S, r + 2)
        a2 == A(S, r + 3)
        b2 == B(S, r + 3)
        add == (a2 - a0) * (b1 - b0) + (a1 - a0) * (b2 + b0)
    IN  Red(condition * add
            + (one - condition) * (a2 - a0)
            + (one - condition) * (b2 - b0)
            + a2 * a2 * a2
            - b2 * b2
            + curve_param_b)

ec_double_gate(S, r) ==
    LET two == FromU(2)
        three == FromU(3)
        a0 == A(S, r)
        b0 == B(S, r)
        a1 == A(S, r + 1)
        b1 == B(S, r + 1)
    IN  Red(two * b0 * (b1 + b0) + (three * a0 * a0) * (a1 - a0)
            + a1 * a1 * a1
            - b1 * b1
            + curve_param_b)

on_curve_gate(S, r) ==
    LET a0 == A(S, r)
        b0 == B(S, r)
    IN  Red(a0 * a0 * a0 - b0 * b0 + curve_param_b)

partial_bit_decom_gate_bad(S, r) ==
    LET a0 == A(S, r)
        b0 == B(S, r)
        a1 == A(S, r + 1)
        b1 == B(S, r + 1)
        a2 == A(S, r + 2)
        b2 == B(S, r + 2)
    IN  Red(a0 + 2 * b0 + 4 * a1 + 8 * b1 + 16 * b2 - a2
            + a0 * (1 - a0) + b0 * (1 - b0) + a1 * (1 - a1) + b1 * (1 - b1))

partial_bit_decom_gate(S, r) ==
    LET one == 1
        two == FromU(2)
        four == FromU(4)
        eight == FromU(8)
        sixteen == FromU(16)
        a0 == A(S, r)
        b0 == B(S, r)
        a1 == A(S, r + 1)
        b1 == B(S, r + 1)
        a2 == A(S, r + 2)
        b2 == B(S, r + 2)
    IN  Red(a0 + two * b0 + four * a1 + eight * b1 + sixteen * a2 - b2
            + a0 * (one - a0)
            + b0 * (one - b0)
            + a1 * (one - a1)
            + b1 * (one - b1))

add_gate_bad(S, r) == Red(A(S, r) + B(S, r) + A(S, r + 1))

add_gate(S, r) ==
    LET a0 == A(S, r)
        b0 == B(S, r)
        a1 == A(S, r + 1)
    IN  Red(a0 + b0 - a1)

mul_gate_bad(S, r) == Red(A(S, r) * B(S, r) - B(S, r + 1))

mul_gate(S, r) ==
    LET a0 == A(S, r)
        b0 == B(S, r)
        a1 == A(S, r + 1)
    IN  Red(a0 * b0 - a1)

(***************************************************************************)
(* The aggregated gate over the six opcodes: each polynomial weighted by   *)
(* the selector combination of its opcode.                                 *)
(*                                                                         *)
(*   used for    | q_ec_disabled | q1 | q2                                 *)
(*   ec add      |       0       | 1  | 0                                  *)
(*   ec double   |       0       | 1  | 1                                  *)
(*   is on curve |       0       | 0  | 1                                  *)
(*   partial     |       1       | 0  | 1                                  *)
(*   add         |       1       | 1  | 0                                  *)
(*   mul         |       1       | 1  | 1                                  *)
(***************************************************************************)
Opcodes == {"ec_add", "ec_double", "on_curve", "partial_bit_decomp", "add", "mul"}

\* the weight of an opcode: the product of selectors and complements of
\* its line of the table
selector_weight(op, qd, s1, s2) ==
    LET one == 1
    IN  CASE op = "ec_add" -> (one - qd) * s1 * (one - s2)
          [] op = "ec_double" -> (one - qd) * s1 * s2
          [] op = "on_curve" -> (one - qd) * (one - s1) * s2
          [] op = "partial_bit_decomp" -> qd * (one - s1) * s2
          [] op = "add" -> qd * s1 * (one - s2)
          [] op = "mul" -> qd * s1 * s2

\* the weight of an opcode on row r
WeightAt(S, op, r) ==
    Red(selector_weight(op, Sel(S, "q_ec_disabled", r), Sel(S, "q1", r),
                        Sel(S, "q2", r)))

native_ec_six(S, r) ==
    Red( WeightAt(S, "ec_add", r) * conditional_ec_add_gate(S, r)
       + WeightAt(S, "ec_double", r) * ec_double_gate(S, r)
       + WeightAt(S, "on_curve", r) * on_curve_gate(S, r)
       + WeightAt(S, "partial_bit_decomp", r) * partial_bit_decom_gate(S, r)
       + WeightAt(S, "add", r) * add_gate(S, r)
       + WeightAt(S, "mul", r) * mul_gate(S, r))

\* the rows the gate is evaluated on: every row a selector can be enabled on
Rows(S) == 0 .. S.offset

CopiesHold(S) ==
    /\ \A e \in S.reg.copies : Val(S, e[1]) = Val(S, e[2])
    /\ \A e \in S.reg.consts : Val(S, e[1]) = e[2]

\* MockProver::verify of a circuit configured with the six-opcode gate
VerifiesSix(S) ==
    /\ ~S.panicked
    /\ \A r \in Rows(S) : native_ec_six(S, r) = 0
    /\ CopiesHold(S)

(***************************************************************************)
(* The arithmetic gadget (arith_gates.rs).  A call returns the new state   *)
(* (st) and the handle it hands back to the caller (res).                  *)
(***************************************************************************)
\* load_private_field that also enables the on-curve selector on its row
load_private_field_bad(S, f) ==
    LET S1 == AssignAdvice(S, "a", S.offset, f)
        S2 == AssignAdvice(S1, "b", S.offset, 0)
        S3 == Enable(S2, "q2", S.offset)
    IN  [st |-> [S3 EXCEPT !.offset = @ + 1], res |-> CellAt("a", S.offset)]

load_private_field(S, f) ==
    LET S1 == AssignAdvice(S, "a", S.offset, f)
        S2 == AssignAdvice(S1, "b", S.offset, 0)
    IN  [st |-> [S2 EXCEPT !.offset = @ + 1], res |-> CellAt("a", S.offset)]

add(S, x, y) ==
    LET S1 == Enable(S, "q_ec_disabled", S.offset)
        S2 == Enable(S1, "q1", S.offset)
        S3 == AssignAdvice(S2, "a", S.offset, x)
        S4 == AssignAdvice(S3, "b", S.offset, y)
        c == (x + y) % P
        S5 == AssignAdvice(S4, "a", S.offset + 1, c)
        S6 == AssignAdvice(S5, "b", S.offset + 1, 0)
    IN  [st |-> [S6 EXCEPT !.offset = @ + 2], res |-> CellAt("a", S.offset + 1)]

\* mul with the result written one row further down, the cursor past it
mul_bad(S, x, y) ==
    LET S1 == Enable(S, "q_ec_disabled", S.offset)
        S2 == Enable(S1, "q1", S.offset)
        S3 == Enable(S2, "q2", S.offset)
        S4 == AssignAdvice(S3, "a", S.offset, x)
        S5 == AssignAdvice(S4, "b", S.offset, y)
        c == (x * y) % P
        S6 == AssignAdvice(S5, "a", S.offset + 2, c)
        S7 == AssignAdvice(S6, "b", S.offset + 2, 0)
    IN  [st |-> [S7 EXCEPT !.offset = @ + 3], res |-> CellAt("a", S.offset + 2)]

mul(S, x, y) ==
    LET S1 == Enable(S, "q_ec_disabled", S.offset)
        S2 == Enable(S1, "q1", S.offset)
        S3 == Enable(S2, "q2", S.offset)
        S4 == AssignAdvice(S3, "a", S.offset, x)
        S5 == AssignAdvice(S4, "b", S.offset, y)
        c == (x * y) % P
        S6 == AssignAdvice(S5, "a", S.offset + 1, c)
        S7 == AssignAdvice(S6, "b", S.offset + 1, 0)
    IN  [st |-> [S7 EXCEPT !.offset = @ + 2], res |-> CellAt("a", S.offset + 1)]

\* partial_bit_decomp with the length asserted after the selectors are enabled
partial_bit_decomp_late_assert(S, inputs) ==
    LET S1 == Enable(S, "q_ec_disabled", S.offset)
        S2 == Enable(S1, "q2", S.offset)
    IN  IF Len(inputs) # 6
        THEN [st |-> Panic(S2), res |-> <<>>]
        ELSE LET S3 == AssignAdvice(S2, "a", S.offset, inputs[1])
                 S4 == AssignAdvice(S3, "b", S.offset, inputs[2])
                 S5 == AssignAdvice(S4, "a", S.offset + 1, inputs[3])
                 S6 == AssignAdvice(S5, "b", S.offset + 1, inputs[4])
                 S7 == AssignAdvice(S6, "a", S.offset + 2, inputs[5])
                 S8 == AssignAdvice(S7, "b", S.offset + 2, inputs[6])
             IN  [st |-> [S8 EXCEPT !.offset = @ + 3],
                  res |-> << CellAt("a", S.offset), CellAt("b", S.offset),
                             CellAt("a", S.offset + 1), CellAt("b", S.offset + 1),
                             CellAt("a", S.offset + 2), CellAt("b", S.offset + 2) >>]

\* inputs: a sequence of field elements; the call panics unless it has six
partial_bit_decomp(S, inputs) ==
    IF Len(inputs) # 6
    THEN [st |-> Panic(S), res |-> <<>>]
    ELSE
    LET S1 == Enable(S, "q_ec_disabled", S.offset)
        S2 == Enable(S1, "q2", S.offset)
        S3 == AssignAdvice(S2, "a", S.offset, inputs[1])
        S4 == AssignAdvice(S3, "b", S.offset, inputs[2])
        S5 == AssignAdvice(S4, "a", S.offset + 1, inputs[3])
        S6 == AssignAdvice(S5, "b", S.offset + 1, inputs[4])
        S7 == AssignAdvice(S6, "a", S.offset + 2, inputs[5])
        S8 == AssignAdvice(S7, "b", S.offset + 2, inputs[6])
    IN  [st |-> [S8 EXCEPT !.offset = @ + 3],
         res |-> << CellAt("a", S.offset), CellAt("b", S.offset),
                    CellAt("a", S.offset + 1), CellAt("b", S.offset + 1),
                    CellAt("a", S.offset + 2), CellAt("b", S.offset + 2) >>]

\* pad with the cursor advanced by one row only, although two were written
pad_bad(S) ==
    LET S1 == AssignAdvice(S, "a", S.offset, 0)
        S2 == AssignAdvice(S1, "b", S.offset, 0)
        S3 == AssignAdvice(S2, "a", S.offset + 1, 0)
        S4 == AssignAdvice(S3, "b", S.offset + 1, 0)
    IN  [st |-> [S4 EXCEPT !.offset = @ + 1], res |-> <<>>]

\* pad (ec_gates.rs): two rows of zeros
pad(S) ==
    LET S1 == AssignAdvice(S, "a", S.offset, 0)
        S2 == AssignAdvice(S1, "b", S.offset, 0)
        S3 == AssignAdvice(S2, "a", S.offset + 1, 0)
        S4 == AssignAdvice(S3, "b", S.offset + 1, 0)
    IN  [st |-> [S4 EXCEPT !.offset = @ + 2], res |-> <<>>]

(***************************************************************************)
(* The field test circuit (arith_gates/tests.rs): add or mul, the expected *)
(* value loaded independently, the two cells copy-constrained, padding.    *)
(***************************************************************************)
InitArith ==
    /\ region = EmptyRegion
    /\ offset = 0
    /\ panicked = FALSE
    /\ pc = "start"
    /\ \E op \in {"add", "mul"}, f1 \in F, f2 \in F, f3 \in F :
          inp = [op |-> op, f1 |-> f1, f2 |-> f2, f3 |-> f3]
    /\ out = <<>>

ArithAdd ==
    /\ pc = "start" /\ inp.op = "add"
    /\ \E r \in {add(Cur, inp.f1, inp.f2)} :
           Commit(r.st) /\ out' = <<r.res>>
    /\ pc' = "load"
    /\ UNCHANGED inp

ArithMul ==
    /\ pc = "start" /\ inp.op = "mul"
    /\ \E r \in {mul(Cur, inp.f1, inp.f2)} :
           Commit(r.st) /\ out' = <<r.res>>
    /\ pc' = "load"
    /\ UNCHANGED inp

ArithLoadExpected ==
    /\ pc = "load"
    /\ \E r \in {load_private_field(Cur, inp.f3)} :
           Commit(r.st) /\ out' = Append(out, r.res)
    /\ pc' = "constrain"
    /\ UNCHANGED inp

ArithConstrain ==
    /\ pc = "constrain"
    /\ Commit(ConstrainEqual(Cur, out[2], out[1]))
    /\ pc' = "pad"
    /\ UNCHANGED <<inp, out>>

CircuitPad ==
    /\ pc = "pad"
    /\ \E r \in {pad(Cur)} : Commit(r.st)
    /\ pc' = "done"
    /\ UNCHANGED <<inp, out>>

NextArith == ArithAdd \/ ArithMul \/ ArithLoadExpected \/ ArithConstrain \/ CircuitPad

SpecArith == InitArith /\ [][NextArith]_vars

\* C6: add(a,b) copy-constrained to an independently loaded c verifies
\* exactly when c = a + b.
C6_AddVerifiesIffSum ==
    (pc = "done" /\ inp.op = "add") =>
        (VerifiesSix(Cur) <=> inp.f3 = (inp.f1 + inp.f2) % P)

C6_Witness ==
    /\ pc = "done" /\ inp.op = "add"
    /\ inp.f3 = (inp.f1 + inp.f2) % P /\ inp.f1 = 7 /\ inp.f2 = 15
    /\ VerifiesSix(Cur)

\* C7: mul(a,b) copy-constrained to an independently loaded c verifies
\* exactly when c = a * b.
C7_MulVerifiesIffProduct ==
    (pc = "done" /\ inp.op = "mul") =>
        (VerifiesSix(Cur) <=> inp.f3 = (inp.f1 * inp.f2) % P)

C7_Witness ==
    /\ pc = "done" /\ inp.op = "mul"
    /\ inp.f3 = (inp.f1 * inp.f2) % P /\ inp.f1 = 7 /\ inp.f2 = 15
    /\ VerifiesSix(Cur)

(***************************************************************************)
(* The partial-bit-decomposition test circuit (arith_gates/tests.rs): one  *)
(* call of partial_bit_decomp on the six values f5, then padding.          *)
(***************************************************************************)
\* largest value tried for the four entries that are meant to be bits
MaxEntry == 2

InitDecomp ==
    /\ region = EmptyRegion
    /\ offset = 0
    /\ panicked = FALSE
    /\ pc = "start"
    /\ \E x1 \in 0 .. MaxEntry, y1 \in 0 .. MaxEntry,
          x2 \in 0 .. MaxEntry, y2 \in 0 .. MaxEntry, x3 \in F, y3 \in F :
          inp = [f5 |-> <<x1 % P, y1 % P, x2 % P, y2 % P, x3, y3>>]
    /\ out = <<>>

DecompCall ==
    /\ pc = "start"
    /\ \E r \in {partial_bit_decomp(Cur, inp.f5)} :
           Commit(r.st) /\ out' = r.res
    /\ pc' = "pad"
    /\ UNCHANGED inp

NextDecomp == DecompCall \/ CircuitPad

SpecDecomp == InitDecomp /\ [][NextDecomp]_vars

IsBit(x) == x \in {0, 1}

FirstFourBinary(t) == IsBit(t[1]) /\ IsBit(t[2]) /\ IsBit(t[3]) /\ IsBit(t[4])

\* x1 + 2 y1 + 4 x2 + 8 y2 + 16 z in the field
Recompose(t, z) == (t[1] + 2 * t[2] + 4 * t[3] + 8 * t[4] + 16 * z) % P

\* C3: the decomposition gate rejects every assignment in which one of
\* x1, y1, x2, y2 is not a bit.  (The booleanity half of the claim; the
\* gate adds the four terms v(1-v) to the recomposition in one polynomial,
\* so the last cell can absorb a non-zero booleanity term.)
C3_NonBinaryRejected ==
    (pc = "done" /\ ~FirstFourBinary(inp.f5)) => ~VerifiesSix(Cur)

C5_HonestVerifiesChangedFails ==
    pc = "done" =>
        \A b0 \in {0, 1} :
            LET t == inp.f5
                h == (16 * t[5] + 8 * t[4] + 4 * t[3] + 2 * t[2] + b0) % P
            IN  (IsBit(t[2]) /\ IsBit(t[3]) /\ IsBit(t[4])) =>
                  /\ (t[1] = b0 /\ t[6] = h) => VerifiesSix(Cur)
                  /\ (t[1] = 2 /\ t[6] = h) => ~VerifiesSix(Cur)
                  /\ (t[1] = b0 /\ t[6] = (h + 1) % P) => ~VerifiesSix(Cur)

\* the case of the test: (1,0,0,1,f1,16 f1+9) verifies, first entry 2 fails,
\* sixth entry + 1 fails
C5_TestCase ==
    pc = "done" =>
        LET t == inp.f5
            h == (16 * t[5] + 9) % P
        IN  (t[2] = 0 /\ t[3] = 0 /\ t[4] = 1) =>
              /\ (t[1] = 1 /\ t[6] = h) => VerifiesSix(Cur)
              /\ (t[1] = 2 /\ t[6] = h) => ~VerifiesSix(Cur)
              /\ (t[1] = 1 /\ t[6] = (h + 1) % P) => ~VerifiesSix(Cur)

(***************************************************************************)
(* Bit extraction (util.rs) and the chained decomposition of a u128        *)
(* (arith_gates.rs).                                                       *)
(***************************************************************************)
Reverse(q) == [i \in 1 .. Len(q) |-> q[Len(q) + 1 - i]]

\* most significant bit first: pushes the high bit of t and shifts left
RECURSIVE byte_to_be_bits_loop(_, _, _)
byte_to_be_bits_loop(t, res, n) ==
    IF n = 0 THEN res
    ELSE byte_to_be_bits_loop((t * 2) % Pow2(ByteBits),
                              Append(res, (t \div Pow2(ByteBits - 1)) % 2 = 1),
                              n - 1)

byte_to_le_bits_bad(b) == byte_to_be_bits_loop(b, <<>>, ByteBits)

\* for _ in 0..8 { res.push(t & 1 == 1); t >>= 1; }
RECURSIVE byte_to_le_bits_loop(_, _, _)
byte_to_le_bits_loop(t, res, n) ==
    IF n = 0 THEN res
    ELSE byte_to_le_bits_loop(t \div 2, Append(res, t % 2 = 1), n - 1)

byte_to_le_bits(b) == byte_to_le_bits_loop(b, <<>>, ByteBits)

\* u128::to_le_bytes
to_le_bytes(v) ==
    [i \in 1 .. U128Bytes |-> (v \div Pow2(ByteBits * (i - 1))) % Pow2(ByteBits)]

\* bool as u64
BoolToU64(x) == IF x THEN 1 ELSE 0

RECURSIVE FlatMapBits(_, _)
FlatMapBits(bytes, i) ==
    IF i > Len(bytes) THEN <<>>
    ELSE LET bits == byte_to_le_bits(bytes[i])
         IN  [j \in 1 .. Len(bits) |-> BoolToU64(bits[j])]
             \o FlatMapBits(bytes, i + 1)

\* util::decompose_u128
util_decompose_u128(v) == FlatMapBits(to_le_bytes(v), 1)

\* One round of the loop of decompose_u128; L carries the loop's variables
\* (st, prev_acc, res, acc_cells) and i counts from 0.
decompose_u128_round(L, ifv, i) ==
    LET S == L.st
        S1 == Enable(S, "q_ec_disabled", S.offset)
        S2 == Enable(S1, "q2", S.offset)
        S3 == AssignAdvice(S2, "b", S.offset + 1, ifv[4 * i + 1])
        S4 == AssignAdvice(S3, "a", S.offset + 1, ifv[4 * i + 2])
        S5 == AssignAdvice(S4, "b", S.offset, ifv[4 * i + 3])
        S6 == AssignAdvice(S5, "a", S.offset, ifv[4 * i + 4])
        acc == ( ifv[4 * i + 4]
               + ifv[4 * i + 3] * FromU(2)
               + ifv[4 * i + 2] * FromU(4)
               + ifv[4 * i + 1] * FromU(8)
               + L.prev_acc * FromU(16)) % P
        S7 == AssignAdvice(S6, "a", S.offset + 2, L.prev_acc)
        S8 == AssignAdvice(S7, "b", S.offset + 2, acc)
    IN  [st |-> [S8 EXCEPT !.offset = @ + 3],
         prev_acc |-> acc,
         res |-> L.res \o << CellAt("b", S.offset + 1), CellAt("a", S.offset + 1),
                             CellAt("b", S.offset), CellAt("a", S.offset) >>,
         acc_cells |-> L.acc_cells
                       \o << CellAt("a", S.offset + 2), CellAt("b", S.offset + 2) >>]

RECURSIVE decompose_u128_loop(_, _, _)
decompose_u128_loop(L, ifv, i) ==
    IF i = Rounds THEN L
    ELSE decompose_u128_loop(decompose_u128_round(L, ifv, i), ifv, i + 1)

\* decompose_u128 without its copy constraints
decompose_u128_chain_bad(S, acc_cells, i) == S

\* the copy constraints between consecutive rounds
RECURSIVE decompose_u128_chain(_, _, _)
decompose_u128_chain(S, acc_cells, i) ==
    IF i = Rounds - 1 THEN S
    ELSE decompose_u128_chain(
            ConstrainEqual(S, acc_cells[i * 2 + 2], acc_cells[(i + 1) * 2 + 1]),
            acc_cells, i + 1)

\* the loop's variables before the first round
decompose_u128_start(S) ==
    [st |-> S, prev_acc |-> 0, res |-> <<>>, acc_cells |-> <<>>]

\* after the loop: the sanity check, the chain of copy constraints, and the
\* result in little-endian order
decompose_u128_finish(L, input) ==
    IF L.prev_acc # FromU(input)
    THEN [st |-> Panic(L.st), res |-> [bits |-> <<>>, acc |-> <<>>]]
    ELSE [st |-> decompose_u128_chain(L.st, L.acc_cells, 0),
          res |-> [bits |-> Reverse(L.res),
                   acc |-> L.acc_cells[Len(L.acc_cells)]]]

\* input_field_vec: the bits most significant first, as field elements
input_field_vec_of(input_le_vec) ==
    [k \in 1 .. Len(input_le_vec) |->
        FromU(input_le_vec[Len(input_le_vec) + 1 - k])]

\* ArithOps::decompose_u128
decompose_u128(S, input) ==
    decompose_u128_finish(
        decompose_u128_loop(decompose_u128_start(S),
                            input_field_vec_of(util_decompose_u128(input)), 0),
        input)

(***************************************************************************)
(* A circuit that decomposes one u128 and pads.                            *)
(***************************************************************************)
InitU128 ==
    /\ region = EmptyRegion
    /\ offset = 0
    /\ panicked = FALSE
    /\ pc = "start"
    /\ \E v \in U128 : inp = [v |-> v]
    /\ out = <<>>

U128Call ==
    /\ pc = "start"
    /\ \E r \in {decompose_u128(Cur, inp.v)} :
           Commit(r.st) /\ out' = r.res
    /\ pc' = "pad"
    /\ UNCHANGED inp

NextU128 == U128Call \/ CircuitPad

SpecU128 == InitU128 /\ [][NextU128]_vars

\* bit j of the integer v
BitOf(v, j) == (v \div Pow2(j)) % 2

RECURSIVE SumLE(_, _, _)
SumLE(S, cells, j) ==
    IF j > Len(cells) THEN 0
    ELSE Val(S, cells[j]) * Pow2(j - 1) + SumLE(S, cells, j + 1)

\* C8: decompose_u128(v) returns one cell per bit of v, each holding 0 or 1,
\* cell j holding bit j (little-endian, so they recompose to v), and an
\* accumulator cell holding the field embedding of v.
C8_DecomposeU128Result ==
    pc \in {"pad", "done"} =>
        /\ ~panicked
        /\ Len(out.bits) = U128Bits
        /\ \A j \in 1 .. U128Bits :
              /\ Val(Cur, out.bits[j]) \in {0, 1}
              /\ Val(Cur, out.bits[j]) = BitOf(inp.v, j - 1)
        /\ SumLE(Cur, out.bits, 1) = inp.v
        /\ Val(Cur, out.acc) = inp.v % P

C8_Witness ==
    /\ pc = "done" /\ inp.v = 77
    /\ Len(out.bits) = U128Bits
    /\ Val(Cur, out.bits[1]) = 1 /\ Val(Cur, out.bits[2]) = 0
    /\ Val(Cur, out.acc) = 77 % P

(***************************************************************************)
(* The curve library the gadgets call on the host: affine points, the      *)
(* identity, and the group law.                                            *)
(***************************************************************************)
\* the affine encoding of the point at infinity (it is not on the curve)
Identity == <<0, 0>>

\* C::from_xy succeeds exactly on these
OnCurve(p) == (p[2] * p[2]) % P = (p[1] * p[1] * p[1] + curve_param_b) % P

CurvePoints == {p \in F \X F : OnCurve(p)}

PointNeg(p) == IF p = Identity THEN Identity ELSE <<p[1], FNeg(p[2])>>

\* the line through p and q (the tangent when p = q) meets the curve again
\* in the negation of the sum
ChordTangent(p, q) ==
    LET lambda == IF p = q
                  THEN (3 * p[1] * p[1] * FInv((2 * p[2]) % P)) % P
                  ELSE ((q[2] - p[2]) * FInv((q[1] - p[1]) % P)) % P
        x3 == (lambda * lambda - p[1] - q[1]) % P
        y3 == (lambda * (p[1] - x3) - p[2]) % P
    IN  <<x3, y3>>

\* (p + q).to_affine()
GroupAdd(p, q) ==
    IF p = Identity THEN q
    ELSE IF q = Identity THEN p
    ELSE IF p[1] = q[1] /\ (p[2] + q[2]) % P = 0 THEN Identity
    ELSE ChordTangent(p, q)

\* the generator of the curve library
Generator == <<4, 3>>

\* C::from_xy(x, y) is None: the pair is neither on the curve nor the
\* encoding of the identity
FromXyIsNone(p) == ~(OnCurve(p) \/ p = Identity)

\* The builds of the curve library differ in where p.coordinates() is None:
\* on the identity, or (coordinates() going through from_xy) on the pairs
\* that from_xy refuses.  The build is an input of every run.
CurveLibs == {"none_on_identity", "none_off_curve"}

CoordinatesIsNone(p) ==
    IF inp.lib = "none_on_identity" THEN p = Identity ELSE FromXyIsNone(p)

(***************************************************************************)
(* The EC point gadget (ec_gates.rs) and the gate of chip.rs.              *)
(***************************************************************************)
\* AssignedECPoint: the two cells and the row they are stored in
AssignedECPoint(x, y, row) == [x |-> x, y |-> y, offset |-> row]

NoPoint == AssignedECPoint(CellAt("a", 0), CellAt("b", 0), 0)

\* AssignedECPoint::witness, and the panic of its unwrap
witness(S, p) == <<Val(S, p.x), Val(S, p.y)>>

witness_panics(S, p) == FromXyIsNone(witness(S, p))

\* p.coordinates().unwrap() panics where coordinates() is None
load_private_point_unchecked(S, p) ==
    IF CoordinatesIsNone(p)
    THEN [st |-> Panic(S), res |-> NoPoint]
    ELSE LET S1 == AssignAdvice(S, "a", S.offset, p[1])
             S2 == AssignAdvice(S1, "b", S.offset, p[2])
         IN  [st |-> [S2 EXCEPT !.offset = @ + 1],
              res |-> AssignedECPoint(CellAt("a", S.offset), CellAt("b", S.offset),
                                      S.offset)]

is_on_curve(S, p) ==
    LET x == Val(S, p.x)
        y == Val(S, p.y)
        r == (x * x * x - y * y + curve_param_b) % P
        S1 == AssignAdvice(S, "a", S.offset, r)
        S2 == AssignAdvice(S1, "b", S.offset, 0)
        S3 == Enable(S2, "q2", S.offset - 1)
    IN  IF S.offset < 1         \* *offset - 1 underflows, the call fails
        THEN [st |-> Panic(S2), res |-> CellAt("a", S.offset)]
        ELSE [st |-> [S3 EXCEPT !.offset = @ + 1], res |-> CellAt("a", S.offset)]

enforce_on_curve_bad(S, p) ==
    LET r == is_on_curve(S, p)
    IN  [st |-> r.st, res |-> <<>>]

enforce_on_curve(S, p) ==
    LET r == is_on_curve(S, p)
    IN  [st |-> ConstrainConstant(r.st, r.res, 0), res |-> <<>>]

\* the second half of load_private: enforce_on_curve on the point that
\* load_private_unchecked returned (a panic ends the call)
load_private_enforce(r) ==
    IF r.st.panicked THEN r
    ELSE [st |-> enforce_on_curve(r.st, r.res).st, res |-> r.res]

load_private_point(S, p) ==
    load_private_enforce(load_private_point_unchecked(S, p))

add_assigned_points(S, p1, p2) ==
    LET S1 == Enable(S, "q1", S.offset - 2)
        p3 == GroupAdd(witness(S, p1), witness(S, p2))
    IN  IF S.offset < 2         \* *offset - 2 underflows, the call fails
        THEN [st |-> Panic(S), res |-> NoPoint]
        ELSE IF witness_panics(S, p1) \/ witness_panics(S, p2)
        THEN [st |-> Panic(S1), res |-> NoPoint]
        ELSE load_private_enforce(load_private_point_unchecked(S1, p3))

double_assigned_point(S, p1) ==
    LET S1 == Enable(S, "q1", S.offset - 1)
        S2 == Enable(S1, "q2", S.offset - 1)
        w == witness(S, p1)
        p2 == GroupAdd(w, w)
    IN  IF S.offset < 1         \* *offset - 1 underflows, the call fails
        THEN [st |-> Panic(S), res |-> NoPoint]
        ELSE IF witness_panics(S, p1)
        THEN [st |-> Panic(S2), res |-> NoPoint]
        ELSE load_private_enforce(load_private_point_unchecked(S2, p2))

\* the selector products of the three cases of the gate of chip.rs
native_ec_case_bad(c, s1, s2) ==
    CASE c = 1 -> s1
      [] c = 2 -> s1 * s2
      [] c = 3 -> (1 - s1) * s2

native_ec_case(c, s1, s2) ==
    LET one == 1
    IN  CASE c = 1 -> s1 * (one - s2)
          [] c = 2 -> s1 * s2
          [] c = 3 -> (one - s1) * s2

\* the gate "native ec" of ECChip::configure (chip.rs)
native_ec(S, r) ==
    LET two == FromU(2)
        three == FromU(3)
        s1 == Sel(S, "q1", r)
        s2 == Sel(S, "q2", r)
        a0 == A(S, r)
        b0 == B(S, r)
        a1 == A(S, r + 1)
        b1 == B(S, r + 1)
        a2 == A(S, r + 2)
        b2 == B(S, r + 2)
        case_1_express ==
            native_ec_case(1, s1, s2)
                * ((a2 - a0) * (b1 - b0) + (a1 - a0) * (b2 + b0))
        case_2_express ==
            native_ec_case(2, s1, s2)
                * (two * b0 * (b1 + b0) + (three * a0 * a0) * (a1 - a0))
        case_3_express ==
            native_ec_case(3, s1, s2)
                * (a0 * a0 * a0 - b0 * b0 - a1 + curve_param_b)
    IN  Red(case_1_express + case_2_express + case_3_express)

\* MockProver::verify of a circuit configured by ECChip::configure (chip.rs)
Verifies(S) ==
    /\ ~S.panicked
    /\ \A r \in Rows(S) : native_ec(S, r) = 0
    /\ CopiesHold(S)

(***************************************************************************)
(* The EC test circuit (tests.rs): the expected point loaded with the      *)
(* on-curve check, the operands loaded unchecked in the rows before the    *)
(* cursor, the addition or the doubling, the result copy-constrained to    *)
(* the expected point, padding.                                            *)
(***************************************************************************)
InitEc ==
    /\ region = EmptyRegion
    /\ offset = 0
    /\ panicked = FALSE
    /\ pc = "start"
    /\ \E op \in {"add", "double"}, p1 \in CurvePoints, p2 \in CurvePoints,
          e \in CurvePoints, lib \in CurveLibs :
          /\ op = "double" => p2 = p1
          /\ inp = [op |-> op, p1 |-> p1, p2 |-> p2, e |-> e, lib |-> lib]
    /\ out = [e |-> NoPoint, p1 |-> NoPoint, p2 |-> NoPoint, rec |-> NoPoint]

\* where synthesize goes after a gadget call: a panic ends it
After(r, next) == IF r.st.panicked THEN "panicked" ELSE next

EcLoadExpected ==
    /\ pc = "start"
    /\ \E r \in {load_private_point(Cur, inp.e)} :
          Commit(r.st) /\ out' = [out EXCEPT !.e = r.res] /\ pc' = After(r, "p1")
    /\ UNCHANGED inp

EcLoadP1 ==
    /\ pc = "p1"
    /\ \E r \in {load_private_point_unchecked(Cur, inp.p1)} :
          /\ Commit(r.st) /\ out' = [out EXCEPT !.p1 = r.res]
          /\ pc' = After(r, IF inp.op = "double" THEN "double" ELSE "p2")
    /\ UNCHANGED inp

EcLoadP2 ==
    /\ pc = "p2"
    /\ \E r \in {load_private_point_unchecked(Cur, inp.p2)} :
          /\ Commit(r.st) /\ out' = [out EXCEPT !.p2 = r.res]
          /\ pc' = After(r, IF inp.op = "add" THEN "add" ELSE "bit")
    /\ UNCHANGED inp

EcAdd ==
    /\ pc = "add"
    /\ \E r \in {add_assigned_points(Cur, out.p1, out.p2)} :
          /\ Commit(r.st) /\ out' = [out EXCEPT !.rec = r.res]
          /\ pc' = After(r, "constrain")
    /\ UNCHANGED inp

EcDouble ==
    /\ pc = "double"
    /\ \E r \in {double_assigned_point(Cur, out.p1)} :
          /\ Commit(r.st) /\ out' = [out EXCEPT !.rec = r.res]
          /\ pc' = After(r, "constrain")
    /\ UNCHANGED inp

EcConstrain ==
    /\ pc = "constrain"
    /\ Commit(ConstrainEqual(ConstrainEqual(Cur, out.e.x, out.rec.x),
                             out.e.y, out.rec.y))
    /\ pc' = "pad"
    /\ UNCHANGED <<inp, out>>

NextEc ==
    EcLoadExpected \/ EcLoadP1 \/ EcLoadP2 \/ EcAdd \/ EcDouble \/ EcConstrain
        \/ CircuitPad

SpecEc == InitEc /\ [][NextEc]_vars

\* the sum the claim expects of the call under test
EcExpected == IF inp.op = "add" THEN GroupAdd(inp.p1, inp.p2)
              ELSE GroupAdd(inp.p1, inp.p1)

\* C9: for all on-curve p1, p2 in the rows before the cursor the call
\* returns p1 + p2 (p1 + p1 for the doubling), an on-curve point; the
\* circuit verifies when the result is copy-constrained to that point and
\* fails when it is copy-constrained to another one.
C9_AddDoubleMatchGroupLaw ==
    /\ pc # "panicked"
    /\ pc \in {"constrain", "pad", "done"} =>
          /\ witness(Cur, out.rec) = EcExpected
          /\ OnCurve(witness(Cur, out.rec))
    /\ pc = "done" => (Verifies(Cur) <=> inp.e = EcExpected)

\* the same, for operands whose sum is not the identity
C9_HoldsOffIdentity ==
    EcExpected # Identity =>
        /\ pc # "panicked"
        /\ pc \in {"constrain", "pad", "done"} =>
              /\ witness(Cur, out.rec) = EcExpected
              /\ OnCurve(witness(Cur, out.rec))
        /\ pc = "done" => (Verifies(Cur) <=> inp.e = EcExpected)

(***************************************************************************)
(* The conditional addition and the doubling of the six-opcode             *)
(* configuration (config.rs), as the test circuit of ec_gates/tests.rs     *)
(* calls them.                                                             *)
(***************************************************************************)
\* 4-row pattern (p1, p2, bit, result): the selector on p1's row, the
\* result p1 + p2 if the bit is one and p1 otherwise
conditional_point_add(S, p1, p2, bit) ==
    LET S1 == Enable(S, "q1", S.offset - 3)
        w1 == witness(S, p1)
        p3 == IF Val(S, bit) = 1 THEN GroupAdd(w1, witness(S, p2)) ELSE w1
    IN  IF S.offset < 3 \/ witness_panics(S, p1) \/ witness_panics(S, p2)
        THEN [st |-> Panic(S), res |-> NoPoint]
        ELSE load_private_point_unchecked(S1, p3)

\* 2-row pattern (p1, result)
point_double(S, p1) ==
    LET S1 == Enable(S, "q1", S.offset - 1)
        S2 == Enable(S1, "q2", S.offset - 1)
        w == witness(S, p1)
    IN  IF S.offset < 1 \/ witness_panics(S, p1)
        THEN [st |-> Panic(S), res |-> NoPoint]
        ELSE load_private_point_unchecked(S2, GroupAdd(w, w))

InitCond ==
    /\ region = EmptyRegion
    /\ offset = 0
    /\ panicked = FALSE
    /\ pc = "start"
    /\ \E p1 \in CurvePoints, p2 \in CurvePoints, bit \in {0, 1},
          e \in CurvePoints, lib \in CurveLibs :
          inp = [op |-> "cond", p1 |-> p1, p2 |-> p2, bit |-> bit, e |-> e,
                 lib |-> lib]
    /\ out = [e |-> NoPoint, p1 |-> NoPoint, p2 |-> NoPoint, rec |-> NoPoint,
              bit |-> CellAt("a", 0)]

CondLoadBit ==
    /\ pc = "bit"
    /\ \E r \in {load_private_field(Cur, FromU(inp.bit))} :
          Commit(r.st) /\ out' = [out EXCEPT !.bit = r.res] /\ pc' = "cond"
    /\ UNCHANGED inp

CondAdd ==
    /\ pc = "cond"
    /\ \E r \in {conditional_point_add(Cur, out.p1, out.p2, out.bit)} :
          /\ Commit(r.st) /\ out' = [out EXCEPT !.rec = r.res]
          /\ pc' = After(r, "constrain")
    /\ UNCHANGED inp

NextCond ==
    EcLoadExpected \/ EcLoadP1 \/ EcLoadP2 \/ CondLoadBit \/ CondAdd
        \/ EcConstrain \/ CircuitPad

SpecCond == InitCond /\ [][NextCond]_vars

\* what the claim expects of conditional_point_add
CondExpected == IF inp.bit = 1 THEN GroupAdd(inp.p1, inp.p2) ELSE inp.p1

\* C10: for bit in {0,1} and on-curve p1, p2 in the 4-row pattern the call
\* returns p1 + p2 when the bit is 1 and p1 when it is 0, and the circuit
\* that copy-constrains the result to that point verifies.
C10_ConditionalAddReturnsSum ==
    /\ pc # "panicked"
    /\ pc \in {"constrain", "pad", "done"} => witness(Cur, out.rec) = CondExpected
    /\ (pc = "done" /\ inp.e = CondExpected) => VerifiesSix(Cur)

\* the same, away from the operands whose sum is the identity
C10_HoldsOffIdentity ==
    CondExpected # Identity =>
        /\ pc # "panicked"
        /\ pc \in {"constrain", "pad", "done"} =>
              witness(Cur, out.rec) = CondExpected
        /\ (pc = "done" /\ inp.e = CondExpected) => VerifiesSix(Cur)

(***************************************************************************)
(* Scalar multiplication: the scalar field, the split of a scalar in two   *)
(* u128 (util.rs), the bits of the scalar, and the double-and-add chain.   *)
(***************************************************************************)
\* the order of the group of the curve; the scalar field is Fr
GroupOrder == Cardinality(CurvePoints) + 1

Fr == 0 .. GroupOrder - 1

\* the bits of a scalar: its canonical encoding is two u128
ScalarBits == 2 * U128Bits

\* PrimeField::to_repr: the little-endian bytes of the scalar
to_repr(e) ==
    [i \in 1 .. 2 * U128Bytes |-> (e \div Pow2(ByteBits * (i - 1))) % Pow2(ByteBits)]

\* u128::from_le_bytes
RECURSIVE from_le_bytes(_)
from_le_bytes(bytes) ==
    IF bytes = <<>> THEN 0
    ELSE Head(bytes) + Pow2(ByteBits) * from_le_bytes(Tail(bytes))

\* field_decompose_u128 with the halves taken from the wrong ends
field_decompose_u128_bad(e) ==
    LET repr == to_repr(e)
    IN  [high |-> from_le_bytes(SubSeq(repr, 1, U128Bytes)),
         low |-> from_le_bytes(SubSeq(repr, U128Bytes + 1, 2 * U128Bytes))]

field_decompose_u128(e) ==
    LET repr == to_repr(e)
    IN  [high |-> from_le_bytes(SubSeq(repr, U128Bytes + 1, 2 * U128Bytes)),
         low |-> from_le_bytes(SubSeq(repr, 1, U128Bytes))]

\* p.mul(s) of the curve library
RECURSIVE ScalarMul(_, _)
ScalarMul(s, p) == IF s = 0 THEN Identity ELSE GroupAdd(ScalarMul(s - 1, p), p)

\* 2^n * p
RECURSIVE DoubleN(_, _)
DoubleN(p, n) == IF n = 0 THEN p ELSE DoubleN(GroupAdd(p, p), n - 1)

\* the constant -2^256 * generator
neg_generator_times_2_to_256 == PointNeg(DoubleN(Generator, ScalarBits))

\* both halves decomposed, the cells of the scalar most significant first
decompose_scalar_cells(h, l) ==
    [st |-> l.st, res |-> Reverse(h.res.bits) \o Reverse(l.res.bits)]

decompose_scalar_low(h, low) ==
    IF h.st.panicked THEN [st |-> h.st, res |-> <<>>]
    ELSE decompose_scalar_cells(h, decompose_u128(h.st, low))

decompose_scalar(S, s) ==
    decompose_scalar_low(decompose_u128(S, field_decompose_u128(s).high),
                         field_decompose_u128(s).low)

\* the protocol before its loop: the bits of the scalar, the accumulator G
point_mul_begin_acc(d, g) ==
    [st |-> g.st, res |-> [bits |-> d.res, acc |-> g.res, k |-> 0]]

point_mul_begin_bits(d) ==
    IF d.st.panicked THEN point_mul_begin_acc(d, [st |-> d.st, res |-> NoPoint])
    ELSE point_mul_begin_acc(d, load_private_point_unchecked(d.st, Generator))

point_mul_begin(S, s) == point_mul_begin_bits(decompose_scalar(S, s))

\* one iteration: double the accumulator (d), load the base point again
\* (q), load the next bit again (b) and copy-constrain it to its
\* decomposition cell, add the base point under that bit
point_mul_step_result(a, L) ==
    [st |-> a.st, res |-> [bits |-> L.bits, acc |-> a.res, k |-> L.k + 1]]

\* the step with the bit loaded again but tied to nothing
point_mul_step_add_bad(d, q, b, L) ==
    point_mul_step_result(conditional_point_add(b.st, d.res, q.res, b.res), L)

point_mul_step_add(d, q, b, L) ==
    point_mul_step_result(
        conditional_point_add(ConstrainEqual(b.st, b.res, L.bits[L.k + 1]),
                              d.res, q.res, b.res), L)

point_mul_step_bit(d, q, L) ==
    IF q.st.panicked THEN point_mul_step_result(q, L)
    ELSE point_mul_step_add(
            d, q, load_private_field(q.st, Val(q.st, L.bits[L.k + 1])), L)

point_mul_step_base(d, L, p) ==
    IF d.st.panicked THEN point_mul_step_result(d, L)
    ELSE point_mul_step_bit(d, load_private_point_unchecked(d.st, p), L)

point_mul_step(S, L, p) == point_mul_step_base(point_double(S, L.acc), L, p)

\* after the loop: add -2^256 * generator under a constant bit of one
point_mul_finish_add(q, b, L) == conditional_point_add(b.st, L.acc, q.res, b.res)

point_mul_finish_bit(q, L) ==
    IF q.st.panicked THEN q
    ELSE point_mul_finish_add(q, load_private_field(q.st, 1), L)

point_mul_finish(S, L) ==
    point_mul_finish_bit(
        load_private_point_unchecked(S, neg_generator_times_2_to_256), L)

(***************************************************************************)
(* The circuit of the curve multiplication test (ec_gates/tests.rs): the   *)
(* expected point, point_mul, the result copy-constrained to the expected  *)
(* point, padding.  MulBegin, MulStep and MulFinish are the positions of   *)
(* point_mul.                                                              *)
(***************************************************************************)
InitMul ==
    /\ region = EmptyRegion
    /\ offset = 0
    /\ panicked = FALSE
    /\ pc = "start"
    /\ \E s \in Fr, p1 \in CurvePoints, lib \in CurveLibs :
          \E e \in {ScalarMul(s, p1), Generator} \ {Identity} :
              inp = [op |-> "mul", s |-> s, p1 |-> p1, e |-> e, lib |-> lib]
    /\ out = [e |-> NoPoint, rec |-> NoPoint, bits |-> <<>>, acc |-> NoPoint, k |-> 0]

MulLoadExpected ==
    /\ pc = "start"
    /\ \E r \in {load_private_point(Cur, inp.e)} :
          Commit(r.st) /\ out' = [out EXCEPT !.e = r.res] /\ pc' = After(r, "begin")
    /\ UNCHANGED inp

MulBegin ==
    /\ pc = "begin"
    /\ \E r \in {point_mul_begin(Cur, inp.s)} :
          /\ Commit(r.st)
          /\ out' = [out EXCEPT !.bits = r.res.bits, !.acc = r.res.acc, !.k = r.res.k]
          /\ pc' = After(r, "loop")
    /\ UNCHANGED inp

MulStep ==
    /\ pc = "loop"
    /\ out.k < ScalarBits
    /\ \E r \in {point_mul_step(Cur, [bits |-> out.bits, acc |-> out.acc, k |-> out.k],
                               inp.p1)} :
          /\ Commit(r.st)
          /\ out' = [out EXCEPT !.acc = r.res.acc, !.k = r.res.k]
          /\ pc' = After(r, "loop")
    /\ UNCHANGED inp

MulFinish ==
    /\ pc = "loop"
    /\ out.k = ScalarBits
    /\ \E r \in {point_mul_finish(Cur, [bits |-> out.bits, acc |-> out.acc, k |-> out.k])} :
          /\ Commit(r.st)
          /\ out' = [out EXCEPT !.rec = r.res]
          /\ pc' = After(r, "constrain")
    /\ UNCHANGED inp

NextMul ==
    MulLoadExpected \/ MulBegin \/ MulStep \/ MulFinish \/ EcConstrain \/ CircuitPad

SpecMul == InitMul /\ [][NextMul]_vars

\* s >> n
RECURSIVE ShiftRight(_, _)
ShiftRight(s, n) == IF n = 0 \/ s = 0 THEN s ELSE ShiftRight(s \div 2, n - 1)

\* the i-th of the bits of s, counted from the most significant one (i = 1)
ScalarBit(s, i) == ShiftRight(s, ScalarBits - i) % 2

\* the accumulators of the chain on the host from iteration k on, given the
\* accumulator before it: the value after each doubling and after each
\* conditional add
RECURSIVE ChainValues(_, _, _, _)
ChainValues(acc, s, p, k) ==
    IF k > ScalarBits THEN <<>>
    ELSE LET rest(d, a) == <<d, a>> \o ChainValues(a, s, p, k + 1)
             added(d) == rest(d, IF ScalarBit(s, k) = 1 THEN GroupAdd(d, p) ELSE d)
         IN  added(GroupAdd(acc, acc))

\* the chain of (s, p) meets the identity before its final correction
HitsIdentityMidChain(s, p) ==
    \E v \in {ChainValues(Generator, s, p, 1)} :
        \E i \in DOMAIN v : v[i] = Identity

\* the final correction of the chain of (s, p) yields the identity
CorrectionIsIdentity(s, p) ==
    \E v \in {ChainValues(Generator, s, p, 1)} :
        GroupAdd(v[Len(v)], neg_generator_times_2_to_256) = Identity

\* C1: for every scalar s and base point P whose chain does not hit the
\* identity mid-chain, the protocol returns a point equal to s*P, and the
\* circuit that copy-constrains it to an independently loaded s*P verifies.
C1_PointMulReturnsScalarMultiple ==
    ~HitsIdentityMidChain(inp.s, inp.p1) =>
        /\ pc # "panicked"
        /\ pc \in {"constrain", "pad", "done"} =>
              witness(Cur, out.rec) = ScalarMul(inp.s, inp.p1)
        /\ (pc = "done" /\ inp.e = ScalarMul(inp.s, inp.p1)) => VerifiesSix(Cur)

\* the same, for the scalars other than zero
C1_HoldsOffZero ==
    (inp.s # 0 /\ ~HitsIdentityMidChain(inp.s, inp.p1)) =>
        /\ pc # "panicked"
        /\ pc \in {"constrain", "pad", "done"} =>
              witness(Cur, out.rec) = ScalarMul(inp.s, inp.p1)
        /\ (pc = "done" /\ inp.e = ScalarMul(inp.s, inp.p1)) => VerifiesSix(Cur)

\* C2: for every scalar and base point, no accumulator of the chain (the
\* initial G, the value after each doubling, after each conditional add,
\* after the final correction) is the identity, and the protocol produces
\* a valid affine curve point.
C2_NeverIdentity ==
    /\ pc # "panicked"
    /\ pc \in {"constrain", "pad", "done"} => witness(Cur, out.rec) \in CurvePoints

\* where coordinates() is None on the identity, point_mul panics exactly
\* when an accumulator of its chain is the identity
C2_PanicsAtIdentity ==
    /\ pc = "panicked" =>
          /\ inp.lib = "none_on_identity"
          /\ HitsIdentityMidChain(inp.s, inp.p1) \/ CorrectionIsIdentity(inp.s, inp.p1)
    /\ (pc \in {"constrain", "pad", "done"} /\ inp.lib = "none_on_identity") =>
          ~(HitsIdentityMidChain(inp.s, inp.p1) \/ CorrectionIsIdentity(inp.s, inp.p1))

\* where it is not, the identity is written as the pair (0, 0): the point
\* that point_mul returns for the scalar zero is not a point of the curve
C2_ZeroScalarReturnsOrigin ==
    (pc \in {"constrain", "pad", "done"} /\ inp.s = 0) =>
        witness(Cur, out.rec) = Identity

(***************************************************************************)
(* A circuit that loads a pair (x, y) unchecked and calls enforce_on_curve *)
(* on it, once (as load_private does, tests.rs:50-59) or twice in a row,   *)
(* then pads.                                                              *)
(***************************************************************************)
\* the number of calls of enforce_on_curve tried
MaxEnforce == 2

InitOnCurve ==
    /\ region = EmptyRegion
    /\ offset = 0
    /\ panicked = FALSE
    /\ pc = "start"
    /\ \E p \in F \X F, n \in 1 .. MaxEnforce, lib \in CurveLibs :
          inp = [op |-> "on_curve", p |-> p, n |-> n, lib |-> lib]
    /\ out = [p |-> NoPoint, k |-> 0]

OnCurveLoad ==
    /\ pc = "start"
    /\ \E r \in {load_private_point_unchecked(Cur, inp.p)} :
          Commit(r.st) /\ out' = [out EXCEPT !.p = r.res] /\ pc' = After(r, "enforce")
    /\ UNCHANGED inp

OnCurveEnforce ==
    /\ pc = "enforce"
    /\ \E r \in {enforce_on_curve(Cur, out.p)} :
          /\ Commit(r.st)
          /\ out' = [out EXCEPT !.k = @ + 1]
          /\ pc' = After(r, IF out.k + 1 = inp.n THEN "pad" ELSE "enforce")
    /\ UNCHANGED inp

NextOnCurve == OnCurveLoad \/ OnCurveEnforce \/ CircuitPad

SpecOnCurve == InitOnCurve /\ [][NextOnCurve]_vars

\* C11: the circuit that loads (x, y) unchecked and calls enforce_on_curve
\* on it with the point in the row before the cursor verifies when
\* y^2 = x^3 + b and fails verification when y^2 # x^3 + b.
C11_EnforceOnCurveVerifiesIffOnCurve ==
    (pc \in {"done", "panicked"} /\ inp.n = 1) =>
        (Verifies(Cur) <=> OnCurve(inp.p))

C11_Witness ==
    /\ pc = "done" /\ inp.n = 1 /\ inp.p = <<4, 3>>
    /\ region.q2 = {0} /\ Verifies(Cur)

\* the circuit of one call: the pair loaded, enforce_on_curve, padding
OnceCircuit(p) ==
    LET l == load_private_point_unchecked(
                 [reg |-> EmptyRegion, offset |-> 0, panicked |-> FALSE], p)
    IN  IF l.st.panicked THEN l.st
        ELSE pad(enforce_on_curve(l.st, l.res).st).st

\* C12: enforce_on_curve is idempotent: the circuit that calls it twice in
\* a row on a loaded point verifies exactly when the circuit that calls it
\* once does.
C12_EnforceTwiceSameAsOnce ==
    (pc \in {"done", "panicked"} /\ inp.n = 2) =>
        (Verifies(Cur) <=> Verifies(OnceCircuit(inp.p)))

(***************************************************************************)
(* The selector columns: any selector may be enabled on any row.           *)
(***************************************************************************)
\* the rows on which selectors are enabled
MaxSelRow == 2

Selectors == {"q_ec_disabled", "q1", "q2"}

InitSel ==
    /\ region = EmptyRegion
    /\ offset = MaxSelRow
    /\ panicked = FALSE
    /\ pc = "select"
    /\ inp = <<>>
    /\ out = <<>>

SelEnable ==
    /\ pc = "select"
    /\ \E name \in Selectors, row \in 0 .. MaxSelRow :
          Commit(Enable(Cur, name, row))
    /\ UNCHANGED <<pc, inp, out>>

NextSel == SelEnable

SpecSel == InitSel /\ [][NextSel]_vars

\* the opcodes whose weight is not zero on row r, for the six opcodes and
\* for the three cases of chip.rs
ActiveOpcodes(S, r) == {op \in Opcodes : WeightAt(S, op, r) # 0}

ActiveCases(S, r) ==
    {c \in 1 .. 3 : Red(native_ec_case(c, Sel(S, "q1", r), Sel(S, "q2", r))) # 0}

\* C13: the opcodes are encoded by disjoint selector combinations: on every
\* row, under every assignment of the selector columns, at most one
\* opcode's selector weight is not zero.
C13_AtMostOneOpcodeActive ==
    \A r \in 0 .. MaxSelRow :
        /\ Cardinality(ActiveOpcodes(Cur, r)) <= 1
        /\ Cardinality(ActiveCases(Cur, r)) <= 1

C13_Witness ==
    /\ ActiveOpcodes(Cur, 0) = {"mul"} /\ ActiveCases(Cur, 0) = {2}
    /\ ActiveOpcodes(Cur, 1) = {"ec_add"} /\ ActiveCases(Cur, 1) = {1}
    /\ ActiveOpcodes(Cur, 2) = {}

(***************************************************************************)
(* Any sequence of gadget calls threaded through one cursor that starts at *)
(* 0.  out.calls records the calls without their witness values: the       *)
(* gadget, the handles passed (as indices into out.points and out.cells)   *)
(* and the length of a slice.                                              *)
(***************************************************************************)
\* the number of calls of a sequence
MaxCalls == 3

\* the witness values tried
SeqFields == {0, 1}

SeqTuples == {<<1, 0, 0, 1, 1, 6>>, <<0, 1, 0, 0, 0, 2>>, <<1, 0, 0, 1, 1>>,
              <<1, 0, 0, 1, 1, 6, 0>>}

SeqU128 == {0, Pow2(U128Bits) - 1}

SeqPoints == {Generator, PointNeg(Generator), Identity}

InitSeq ==
    /\ region = EmptyRegion
    /\ offset = 0
    /\ panicked = FALSE
    /\ pc = "seq"
    /\ \E lib \in CurveLibs : inp = [op |-> "seq", lib |-> lib]
    /\ out = [calls |-> <<>>, points |-> <<>>, cells |-> <<>>]

\* a call returned r: the state it left, the call recorded, the handle it
\* returned kept (kind says whether it is a point, a cell, or neither)
SeqReturn(r, call, kind) ==
    /\ pc = "seq"
    /\ Len(out.calls) < MaxCalls
    /\ Commit(r.st)
    /\ pc' = After(r, "seq")
    /\ out' = [calls |-> Append(out.calls, call),
               points |-> IF kind = "point" /\ ~r.st.panicked
                          THEN Append(out.points, r.res) ELSE out.points,
               cells |-> IF kind = "cell" /\ ~r.st.panicked
                         THEN Append(out.cells, r.res) ELSE out.cells]
    /\ UNCHANGED inp

Call(g, i, j, c, n) == [g |-> g, i |-> i, j |-> j, c |-> c, len |-> n]

SeqLoadField ==
    \E v \in SeqFields :
        SeqReturn(load_private_field(Cur, v), Call("load_private_field", 0, 0, 0, 0),
                  "cell")

SeqAdd ==
    \E a \in SeqFields, b \in SeqFields :
        SeqReturn(add(Cur, a, b), Call("add", 0, 0, 0, 0), "cell")

SeqMul ==
    \E a \in SeqFields, b \in SeqFields :
        SeqReturn(mul(Cur, a, b), Call("mul", 0, 0, 0, 0), "cell")

SeqDecomp ==
    \E t \in SeqTuples :
        SeqReturn(partial_bit_decomp(Cur, t),
                  Call("partial_bit_decomp", 0, 0, 0, Len(t)), "none")

SeqDecomposeU128 ==
    \E v \in SeqU128 :
        SeqReturn(decompose_u128(Cur, v), Call("decompose_u128", 0, 0, 0, 0), "none")

SeqLoadPoint ==
    \E p \in SeqPoints :
        SeqReturn(load_private_point_unchecked(Cur, p),
                  Call("load_private_point_unchecked", 0, 0, 0, 0), "point")

SeqEnforce ==
    \E i \in DOMAIN out.points :
        SeqReturn(enforce_on_curve(Cur, out.points[i]),
                  Call("enforce_on_curve", i, 0, 0, 0), "none")

SeqAddPoints ==
    \E i \in DOMAIN out.points, j \in DOMAIN out.points :
        SeqReturn(add_assigned_points(Cur, out.points[i], out.points[j]),
                  Call("add_assigned_points", i, j, 0, 0), "point")

SeqDouble ==
    \E i \in DOMAIN out.points :
        SeqReturn(double_assigned_point(Cur, out.points[i]),
                  Call("double_assigned_point", i, 0, 0, 0), "point")

SeqCondAdd ==
    \E i \in DOMAIN out.points, j \in DOMAIN out.points, c \in DOMAIN out.cells :
        SeqReturn(conditional_point_add(Cur, out.points[i], out.points[j],
                                        out.cells[c]),
                  Call("conditional_point_add", i, j, c, 0), "point")

SeqPad == SeqReturn(pad(Cur), Call("pad", 0, 0, 0, 0), "none")

NextSeq ==
    SeqLoadField \/ SeqAdd \/ SeqMul \/ SeqDecomp \/ SeqDecomposeU128
        \/ SeqLoadPoint \/ SeqEnforce \/ SeqAddPoints \/ SeqDouble \/ SeqCondAdd
        \/ SeqPad

SpecSeq == InitSeq /\ [][NextSeq]_vars

\* C14: after any sequence of gadget calls threaded through one cursor
\* that starts at 0, every (column, row) cell has been assigned at most
\* once.
C14_CellsAssignedOnce ==
    \A c \in DOMAIN region.writes : region.writes[c] <= 1

C14_Witness ==
    /\ Len(out.calls) = MaxCalls /\ ~panicked
    /\ out.calls[1].g = "load_private_point_unchecked"
    /\ out.calls[2].g = "double_assigned_point"
    /\ out.calls[3].g = "pad"
    /\ Cardinality(DOMAIN region.writes) = 10

\* the call just made, if one was
LastCall == out.calls[Len(out.calls)]

BadLengthCall(c) == c.g = "partial_bit_decomp" /\ c.len # 6

\* C15: partial_bit_decomp called with a slice whose length is not 6
\* fails at once: the call panics, and no selector is enabled, no cell is
\* written, no constraint added and the cursor is not advanced.
C15_BadLengthFailsBeforeAnyEffect ==
    [][ (Len(out'.calls) = Len(out.calls) + 1
            /\ BadLengthCall(out'.calls[Len(out'.calls)]))
        => (panicked' /\ pc' = "panicked" /\ region' = region /\ offset' = offset) ]_vars

C15_Witness ==
    /\ Len(out.calls) = MaxCalls
    /\ BadLengthCall(LastCall) /\ LastCall.len = 7
    /\ panicked /\ offset = 5
    /\ out.calls[2].g = "partial_bit_decomp" /\ out.calls[2].len = 6

\* the call c, made at the cursor and with the handles of the current
\* state, references a point that does not sit where the gadget expects it
Misaligned(c) ==
    \/ /\ c.g \in {"enforce_on_curve", "double_assigned_point"}
       /\ out.points[c.i].offset # offset - 1
    \/ /\ c.g = "add_assigned_points"
       /\ \/ out.points[c.i].offset # offset - 2
          \/ out.points[c.j].offset # offset - 1

\* C16: enforce_on_curve(p) and double_assigned_point(p) fail at once
\* unless p's row is cursor-1, add_assigned_points(p1, p2) fails at once
\* unless p1 and p2 sit on rows cursor-2 and cursor-1; when a call fails so,
\* no selector is enabled and no cell is written.
C16_MisalignedPointFails ==
    [][ (Len(out'.calls) = Len(out.calls) + 1
            /\ Misaligned(out'.calls[Len(out'.calls)]))
        => (panicked' /\ region' = region /\ offset' = offset) ]_vars

(***************************************************************************)
(* The layout of a table: everything but the cell values.  RefRun replays  *)
(* the calls of a run with fixed witness values (field 0, the generator,   *)
(* a slice of zeros, the u128 0), so that two runs of one call sequence    *)
(* are compared through the run they are both compared with.               *)
(***************************************************************************)
Layout(S) ==
    [q_ec_disabled |-> S.reg.q_ec_disabled, q1 |-> S.reg.q1, q2 |-> S.reg.q2,
     copies |-> S.reg.copies, consts |-> S.reg.consts,
     written |-> DOMAIN S.reg.writes, offset |-> S.offset]

ReturnKind(g) ==
    CASE g \in {"load_private_field", "add", "mul"} -> "cell"
      [] g \in {"load_private_point_unchecked", "add_assigned_points",
                "double_assigned_point", "conditional_point_add"} -> "point"
      [] OTHER -> "none"

RefResult(acc, c) ==
    CASE c.g = "load_private_field" -> load_private_field(acc.st, 0)
      [] c.g = "add" -> add(acc.st, 0, 0)
      [] c.g = "mul" -> mul(acc.st, 0, 0)
      [] c.g = "partial_bit_decomp" ->
            partial_bit_decomp(acc.st, [k \in 1..c.len |-> 0])
      [] c.g = "decompose_u128" -> decompose_u128(acc.st, 0)
      [] c.g = "load_private_point_unchecked" ->
            load_private_point_unchecked(acc.st, Generator)
      [] c.g = "enforce_on_curve" -> enforce_on_curve(acc.st, acc.points[c.i])
      [] c.g = "add_assigned_points" ->
            add_assigned_points(acc.st, acc.points[c.i], acc.points[c.j])
      [] c.g = "double_assigned_point" ->
            double_assigned_point(acc.st, acc.points[c.i])
      [] c.g = "conditional_point_add" ->
            conditional_point_add(acc.st, acc.points[c.i], acc.points[c.j],
                                  acc.cells[c.c])
      [] c.g = "pad" -> pad(acc.st)

RefCall(acc, c) ==
    IF acc.st.panicked THEN acc
    ELSE LET r == RefResult(acc, c)
             ok == ~r.st.panicked
         IN  [st |-> r.st,
              points |-> IF ok /\ ReturnKind(c.g) = "point"
                         THEN Append(acc.points, r.res) ELSE acc.points,
              cells |-> IF ok /\ ReturnKind(c.g) = "cell"
                        THEN Append(acc.cells, r.res) ELSE acc.cells]

RECURSIVE RefRun(_, _)
RefRun(calls, k) ==
    IF k = 0
    THEN [st |-> [reg |-> EmptyRegion, offset |-> 0, panicked |-> FALSE],
          points |-> <<>>, cells |-> <<>>]
    ELSE RefCall(RefRun(calls, k - 1), calls[k])

\* C17: two runs of one sequence of gadget calls that differ only in
\* witness values enable each selector on the same rows, add the same copy
\* constraints, write the same (column, row) positions and end at the same
\* cursor.
C17_LayoutIndependentOfWitness ==
    Layout(Cur) = Layout(RefRun(out.calls, Len(out.calls)).st)

\* the same between runs that return from every call
C17_HoldsForCompletedRuns ==
    ~panicked => C17_LayoutIndependentOfWitness

\* the same under the build whose coordinates() is Some on the identity
C17_HoldsWhereIdentityLoads ==
    inp.lib = "none_off_curve" => C17_LayoutIndependentOfWitness

(***************************************************************************)
(* The loop of point_mul (SpecMul): out.k iterations done, out.acc the     *)
(* accumulator.                                                            *)
(***************************************************************************)
\* the integer formed by the k most significant bits of s
ScalarPrefix(s, k) == s \div Pow2(ScalarBits - k)

\* 2^k * G + (the k most significant bits of s) * P
LoopInvariantValue(s, p, k) ==
    GroupAdd(DoubleN(Generator, k), ScalarMul(ScalarPrefix(s, k), p))

\* C18: at every step of the loop the accumulator is 2^k * G + (the k most
\* significant bits of s) * P, for k = 0 .. ScalarBits (k = 0: G); after
\* the last iteration it is 2^ScalarBits * G + s * P, and the further
\* conditional add of -2^ScalarBits * G yields s * P.
C18_LoopInvariant ==
    /\ pc # "panicked"
    /\ pc = "loop" => witness(Cur, out.acc) = LoopInvariantValue(inp.s, inp.p1, out.k)
    /\ pc \in {"constrain", "pad", "done"} =>
          witness(Cur, out.rec) = ScalarMul(inp.s, inp.p1)

\* the same for the steps that return: the values are those of the
\* invariant as long as no load of an accumulator panics
C18_HoldsWhileRunning ==
    /\ pc = "loop" => witness(Cur, out.acc) = LoopInvariantValue(inp.s, inp.p1, out.k)
    /\ (pc = "loop" /\ out.k = ScalarBits) =>
          witness(Cur, out.acc)
              = GroupAdd(DoubleN(Generator, ScalarBits), ScalarMul(inp.s, inp.p1))
    /\ pc \in {"constrain", "pad", "done"} =>
          witness(Cur, out.rec) = ScalarMul(inp.s, inp.p1)

\* a run panics only where the value of the invariant, or the corrected
\* result, is the identity
C18_PanicsOnlyAtIdentity ==
    pc = "panicked" =>
        /\ inp.lib = "none_on_identity"
        /\ \/ \E k \in 1 .. ScalarBits :
                 \/ LoopInvariantValue(inp.s, inp.p1, k) = Identity
                 \/ GroupAdd(LoopInvariantValue(inp.s, inp.p1, k - 1),
                             LoopInvariantValue(inp.s, inp.p1, k - 1)) = Identity
           \/ ScalarMul(inp.s, inp.p1) = Identity

(***************************************************************************)
(* Every assignment of the four rows of a conditional addition (p1, p2,    *)
(* bit, result), the ec_add selector on p1's row: the rows are written one *)
(* by one, the result with any pair of field elements.                     *)
(***************************************************************************)
InitCondGate ==
    /\ region = EmptyRegion
    /\ offset = 0
    /\ panicked = FALSE
    /\ pc = "p1"
    /\ inp = [op |-> "cond_gate"]
    /\ out = <<>>

\* one row (x, y) written at the cursor
GateRow(S, x, y) ==
    [AssignAdvice(AssignAdvice(S, "a", S.offset, x), "b", S.offset, y)
        EXCEPT !.offset = @ + 1]

GateAssignP1 ==
    /\ pc = "p1"
    /\ \E p \in CurvePoints : Commit(GateRow(Cur, p[1], p[2]))
    /\ pc' = "p2"
    /\ UNCHANGED <<inp, out>>

GateAssignP2 ==
    /\ pc = "p2"
    /\ \E p \in CurvePoints : Commit(GateRow(Cur, p[1], p[2]))
    /\ pc' = "bit"
    /\ UNCHANGED <<inp, out>>

GateAssignBit ==
    /\ pc = "bit"
    /\ \E b \in {0, 1} : Commit(GateRow(Cur, b, 0))
    /\ pc' = "result"
    /\ UNCHANGED <<inp, out>>

GateAssignResult ==
    /\ pc = "result"
    /\ \E x \in F, y \in F :
          Commit(GateRow(Enable(Cur, "q1", offset - 3), x, y))
    /\ pc' = "done"
    /\ UNCHANGED <<inp, out>>

NextCondGate == GateAssignP1 \/ GateAssignP2 \/ GateAssignBit \/ GateAssignResult

SpecCondGate == InitCondGate /\ [][NextCondGate]_vars

\* the parts of the gate on the rows r .. r+3
Colinear(S, r) ==
    Red((A(S, r + 3) - A(S, r)) * (B(S, r + 1) - B(S, r))
        + (A(S, r + 1) - A(S, r)) * (B(S, r + 3) + B(S, r))) = 0

ResultIsP1(S, r) == A(S, r + 3) = A(S, r) /\ B(S, r + 3) = B(S, r)

ResultOnCurve(S, r) == OnCurve(<<A(S, r + 3), B(S, r + 3)>>)

GateParts(S, r) ==
    /\ A(S, r + 2) = 1 => Colinear(S, r)
    /\ A(S, r + 2) = 0 => ResultIsP1(S, r)
    /\ ResultOnCurve(S, r)

\* C19: every assignment of the four rows that satisfies the
\* conditional-add gate satisfies each part: bit = 1 gives (x1,y1),
\* (x2,y2), (x3,-y3) colinear, bit = 0 gives result = p1 in both
\* coordinates, and the result is on the curve in both cases.
C19_GateSatisfiedGivesEachPart ==
    (pc = "done" /\ VerifiesSix(Cur)) => GateParts(Cur, 0)

\* the converse: an assignment that satisfies each part satisfies the gate
C19_EachPartGivesGateSatisfied ==
    (pc = "done" /\ GateParts(Cur, 0)) => VerifiesSix(Cur)

(***************************************************************************)
(* The cells of decompose_u128 under another assignment: the gadget lays   *)
(* down its selectors, cells and copy constraints for an input, then one   *)
(* of its cells is given any value of the field (a prover chooses the      *)
(* values of the advice cells; the host-side sanity check only sees the    *)
(* values the gadget computed).                                            *)
(***************************************************************************)
InitU128Cells ==
    /\ region = EmptyRegion
    /\ offset = 0
    /\ panicked = FALSE
    /\ pc = "start"
    /\ \E v \in U128 : inp = [v |-> v]
    /\ out = [bits |-> <<>>, acc |-> CellAt("a", 0)]

U128Lay ==
    /\ pc = "start"
    /\ \E r \in {decompose_u128(Cur, inp.v)} :
           Commit(r.st) /\ out' = r.res
    /\ pc' = "laid"
    /\ UNCHANGED inp

\* the advice cell c holds v instead
SetCell(S, c, v) == [S EXCEPT !.reg.tbl[c] = v]

U128Reassign ==
    /\ pc = "laid"
    /\ \E c \in DOMAIN region.tbl, v \in F : Commit(SetCell(Cur, c, v))
    /\ pc' = "reassigned"
    /\ UNCHANGED <<inp, out>>

NextU128Cells == U128Lay \/ U128Reassign

SpecU128Cells == InitU128Cells /\ [][NextU128Cells]_vars

\* C20: every assignment of the cells of decompose_u128 that satisfies all
\* its partial-decomposition gates and the copy constraints between
\* consecutive rounds has every bit cell in {0, 1} and a final accumulator
\* equal to the sum of bit_j * 2^j.
C20_ConstraintsProveDecomposition ==
    (pc \in {"laid", "reassigned"} /\ VerifiesSix(Cur)) =>
        /\ \A j \in 1 .. U128Bits : Val(Cur, out.bits[j]) \in {0, 1}
        /\ Val(Cur, out.acc) = SumLE(Cur, out.bits, 1) % P

\* the assignment the gadget computes itself meets the statement
C20_HonestAssignment ==
    pc = "laid" =>
        /\ VerifiesSix(Cur)
        /\ \A j \in 1 .. U128Bits : Val(Cur, out.bits[j]) \in {0, 1}
        /\ Val(Cur, out.acc) = SumLE(Cur, out.bits, 1) % P

\* the integer formed by the n most significant bits of the u128 v
U128Prefix(v, n) == v \div Pow2(U128Bits - n)

\* C21: decompose_u128 runs Rounds rounds of 3 rows each, the selectors of
\* the partial decomposition on the first row of each; round i absorbs the
\* next BitsPerRound bits from the most significant end and emits
\* acc_i = 16 * acc_(i-1) + 8*b3 + 4*b2 + 2*b1 + b0 with acc_(-1) = 0, so
\* that acc_i is (the field embedding of) the integer formed by the
\* 4*(i+1) most significant bits of v; the cell of acc_i is
\* copy-constrained to the cell of round i+1's previous accumulator.
C21_RoundsChainAccumulators ==
    pc \in {"pad", "done"} =>
        /\ ~panicked
        /\ region.q_ec_disabled = {3 * i : i \in 0 .. Rounds - 1}
        /\ region.q2 = {3 * i : i \in 0 .. Rounds - 1}
        /\ pc = "pad" => offset = 3 * Rounds
        /\ \A i \in 0 .. Rounds - 1 :
              /\ A(Cur, 3 * i + 2)
                    = (IF i = 0 THEN 0
                       ELSE U128Prefix(inp.v, BitsPerRound * i) % P)
              /\ B(Cur, 3 * i + 2) = U128Prefix(inp.v, BitsPerRound * (i + 1)) % P
              /\ B(Cur, 3 * i + 2)
                    = Red(16 * A(Cur, 3 * i + 2) + 8 * B(Cur, 3 * i + 1)
                          + 4 * A(Cur, 3 * i + 1) + 2 * B(Cur, 3 * i) + A(Cur, 3 * i))
              /\ 8 * B(Cur, 3 * i + 1) + 4 * A(Cur, 3 * i + 1)
                    + 2 * B(Cur, 3 * i) + A(Cur, 3 * i)
                 = U128Prefix(inp.v, BitsPerRound * (i + 1)) % Pow2(BitsPerRound)
        /\ region.copies
              = {<<CellAt("b", 3 * i + 2), CellAt("a", 3 * (i + 1) + 2)>> :
                    i \in 0 .. Rounds - 2}

C21_Witness ==
    /\ pc = "pad" /\ inp.v = 181 /\ ~panicked
    /\ B(Cur, 2) = 11 /\ A(Cur, 5) = 11 /\ B(Cur, 5) = 181 % P
    /\ <<CellAt("b", 2), CellAt("a", 5)>> \in region.copies

(***************************************************************************)
(* The bits point_mul consumes (SpecMul).                                  *)
(***************************************************************************)
\* the rows the conditional addition is active on, and the k-th of them
CondAddRows(S) == {r \in Rows(S) : WeightAt(S, "ec_add", r) = 1}

\* the rank of the row r among the rows (1 for the first)
RankIn(rows, r) == Cardinality({q \in rows : q < r}) + 1

\* the first row of the scalar's decomposition
DecompStart(S) ==
    CHOOSE r \in S.reg.q_ec_disabled : \A q \in S.reg.q_ec_disabled : r <= q

\* the cell decompose_u128 writes the k-th most significant bit of the
\* scalar to (k = 1 .. ScalarBits): the high half first, each round on
\* three rows, its four bits most significant first on (b, +1), (a, +1),
\* (b, +0), (a, +0)
DecompCellOfBit(S, k) ==
    LET round == (k - 1) \div BitsPerRound
        t == (k - 1) % BitsPerRound
        base == DecompStart(S) + 3 * round
    IN  CASE t = 0 -> CellAt("b", base + 1)
          [] t = 1 -> CellAt("a", base + 1)
          [] t = 2 -> CellAt("b", base)
          [] t = 3 -> CellAt("a", base)

\* C22: the bit cell consumed by the k-th conditional_point_add of the
\* loop (the a cell two rows below its selector) is copy-constrained to
\* the decomposition cell of the k-th most significant bit of s, the cells
\* being the decompose_u128 outputs of the high and the low half
\* concatenated most significant first; no conditional add of the loop
\* uses a bit cell that is not tied so.
C22_LoopBitsTiedToDecomposition ==
    (pc \in {"loop", "constrain", "pad", "done"} /\ ~panicked) =>
        /\ Len(out.bits) = ScalarBits
        /\ \A k \in 1 .. ScalarBits :
              /\ out.bits[k] = DecompCellOfBit(Cur, k)
              /\ Val(Cur, out.bits[k]) = ScalarBit(inp.s, k)
        /\ \E rows \in {CondAddRows(Cur)} :
              /\ Cardinality(rows) = out.k + (IF pc = "loop" THEN 0 ELSE 1)
              /\ \A r \in rows :
                    RankIn(rows, r) <= ScalarBits =>
                        <<CellAt("a", r + 2), out.bits[RankIn(rows, r)]>>
                            \in region.copies

C22_Witness ==
    /\ pc = "done" /\ ~panicked /\ out.k = ScalarBits
    /\ inp.s = 5 /\ inp.p1 = Generator
    /\ Val(Cur, out.bits[ScalarBits]) = 1 /\ Val(Cur, out.bits[ScalarBits - 1]) = 0
    /\ \E rows \in {CondAddRows(Cur)} :
          \E r \in rows :
              /\ RankIn(rows, r) = ScalarBits
              /\ <<CellAt("a", r + 2), out.bits[ScalarBits]>> \in region.copies

\* the rows each gadget uses
RowsUsed(g) ==
    CASE g \in {"load_private_field", "load_private_point_unchecked",
                "enforce_on_curve"} -> 1
      [] g \in {"add", "mul", "pad"} -> 2
      [] g = "partial_bit_decomp" -> 3
      [] g = "decompose_u128" -> 3 * Rounds

RowsUsedKnown ==
    {"load_private_field", "load_private_point_unchecked", "enforce_on_curve",
     "add", "mul", "pad", "partial_bit_decomp", "decompose_u128"}

\* the cells a step assigned
Assigned(w, v) ==
    {c \in DOMAIN v : c \notin DOMAIN w \/ v[c] # w[c]}

\* C23: a gadget called at cursor c that returns has written cells only in
\* rows c .. c+k-1 (and in each of them) and leaves the cursor at c+k, k
\* depending on the gadget alone: load_field 1, load_point_unchecked 1,
\* enforce_on_curve 1, add 2, mul 2, pad 2, partial_bit_decomp 3,
\* decompose_u128 3 * Rounds; the cursor never decreases.
C23_GadgetRowsAndCursor ==
    [][ /\ offset' >= offset
        /\ (Len(out'.calls) = Len(out.calls) + 1 /\ ~panicked'
              /\ out'.calls[Len(out'.calls)].g \in RowsUsedKnown)
            => \E k \in {RowsUsed(out'.calls[Len(out'.calls)].g)} :
                  /\ offset' = offset + k
                  /\ {c[2] : c \in Assigned(region.writes, region'.writes)}
                        = offset .. offset + k - 1 ]_vars

C23_Witness ==
    /\ Len(out.calls) = MaxCalls /\ ~panicked
    /\ out.calls[1].g = "mul"
    /\ out.calls[2].g = "decompose_u128"
    /\ out.calls[3].g = "partial_bit_decomp"
    /\ offset = 2 + 3 * Rounds + 3

(***************************************************************************)
(* add_points and double_point (ec_gates.rs): each operand loaded with the *)
(* on-curve check, loaded again unchecked in the rows before the result,   *)
(* the two copies copy-constrained.                                        *)
(***************************************************************************)
\* the operands not tied to their checked copies
CopyPoint_bad(S, checked, unchecked) == S

CopyPoint(S, checked, unchecked) ==
    ConstrainEqual(ConstrainEqual(S, checked.x, unchecked.x), checked.y, unchecked.y)

add_points(S, p1, p2) ==
    LET c1 == load_private_point(S, p1)
        c2 == load_private_point(c1.st, p2)
        u1 == load_private_point_unchecked(c2.st, p1)
        u2 == load_private_point_unchecked(u1.st, p2)
        S1 == CopyPoint(CopyPoint(u2.st, c1.res, u1.res), c2.res, u2.res)
    IN  IF c1.st.panicked THEN [st |-> c1.st, res |-> NoPoint]
        ELSE IF c2.st.panicked THEN [st |-> c2.st, res |-> NoPoint]
        ELSE add_assigned_points(S1, u1.res, u2.res)

double_point(S, p1) ==
    LET c1 == load_private_point(S, p1)
        u1 == load_private_point_unchecked(c1.st, p1)
        S1 == CopyPoint(u1.st, c1.res, u1.res)
    IN  IF c1.st.panicked THEN [st |-> c1.st, res |-> NoPoint]
        ELSE double_assigned_point(S1, u1.res)

\* the operands tried
OperandPoints == {Generator, <<6, 3>>}

InitPoints ==
    /\ region = EmptyRegion
    /\ offset = 0
    /\ panicked = FALSE
    /\ pc = "start"
    /\ \E p1 \in OperandPoints, p2 \in OperandPoints, lib \in CurveLibs :
          inp = [op |-> "points", p1 |-> p1, p2 |-> p2, lib |-> lib]
    /\ out = NoPoint

PointsAdd ==
    /\ pc = "start"
    /\ \E r \in {add_points(Cur, inp.p1, inp.p2)} :
          Commit(r.st) /\ out' = r.res /\ pc' = After(r, "laid")
    /\ UNCHANGED inp

PointsDouble ==
    /\ pc = "start"
    /\ inp.p2 = inp.p1
    /\ \E r \in {double_point(Cur, inp.p1)} :
          Commit(r.st) /\ out' = r.res /\ pc' = After(r, "laid")
    /\ UNCHANGED inp

\* the rows of the checked copies: the rows the on-curve relation alone
\* is active on, the result's row (the last of them) left out
CheckedRows(S) ==
    {r \in S.reg.q2 \ S.reg.q1 : \E q \in S.reg.q2 \ S.reg.q1 : q > r}

\* the rows the EC-add or the EC-double relation reads its operands from
OperandRows(S) ==
    S.reg.q1 \cup {r + 1 : r \in S.reg.q1 \ S.reg.q2}

\* another assignment of the cells of an operand: any pair in a checked
\* copy, in an operand row or in both, any value in the cell under the
\* checked copy
PointsReassign ==
    /\ pc = "laid"
    /\ \E r \in CheckedRows(Cur), u \in OperandRows(Cur), x \in F, y \in F, v \in F,
          which \in {"checked", "unchecked", "both"} :
             \E S1 \in {IF which = "unchecked" THEN Cur
                        ELSE SetCell(SetCell(Cur, CellAt("a", r), x),
                                     CellAt("b", r), y)} :
                \E S2 \in {IF which = "checked" THEN S1
                           ELSE SetCell(SetCell(S1, CellAt("a", u), x),
                                        CellAt("b", u), y)} :
                   Commit(SetCell(S2, CellAt("a", r + 1), v))
    /\ pc' = "reassigned"
    /\ UNCHANGED <<inp, out>>

NextPoints == PointsAdd \/ PointsDouble \/ PointsReassign

SpecPoints == InitPoints /\ [][NextPoints]_vars

\* the operand rows whose two cells are copy-constrained to the checked
\* copy on row r
TiedRows(S, r) ==
    {u \in OperandRows(S) :
        /\ <<CellAt("a", r), CellAt("a", u)>> \in S.reg.copies
        /\ <<CellAt("b", r), CellAt("b", u)>> \in S.reg.copies}

\* C24: add_points loads each operand once with the on-curve check and
\* once unchecked in the two rows directly before the result, both
\* coordinates of every checked copy copy-constrained to the unchecked
\* one, so that in every assignment that verifies the operand rows read by
\* the EC-add relation hold points of the curve; double_point does the
\* same for its operand.
C24_OperandRowsProvenOnCurve ==
    pc \in {"laid", "reassigned"} =>
        /\ OperandRows(Cur) \in {{offset - 3}, {offset - 4, offset - 3}}
        /\ \A u \in OperandRows(Cur) :
              \E r \in CheckedRows(Cur) : u \in TiedRows(Cur, r)
        /\ Verifies(Cur) =>
              \A r \in OperandRows(Cur) : OnCurve(<<A(Cur, r), B(Cur, r)>>)

\* the same without the layout: what the constraints prove
C24_VerifiedOperandsOnCurve ==
    (pc \in {"laid", "reassigned"} /\ Verifies(Cur)) =>
        \A r \in OperandRows(Cur) : OnCurve(<<A(Cur, r), B(Cur, r)>>)

C24_Witness ==
    /\ pc = "reassigned" /\ Verifies(Cur)
    /\ inp.p1 = Generator /\ inp.p2 = <<6, 3>>
    /\ OperandRows(Cur) = {4, 5}
    /\ <<A(Cur, 4), B(Cur, 4)>> = Generator
    /\ <<A(Cur, 5), B(Cur, 5)>> = <<6, 3>>
    /\ <<A(Cur, 6), B(Cur, 6)>> = GroupAdd(Generator, <<6, 3>>)

(***************************************************************************)
(* The EC-add and the EC-double relation over every result: the operands   *)
(* are loaded on the rows before the cursor, add_assigned_points or        *)
(* double_assigned_point lays down the result with its on-curve check,     *)
(* then the result row takes any pair of field elements.                   *)
(***************************************************************************)
InitRel ==
    /\ region = EmptyRegion
    /\ offset = 0
    /\ panicked = FALSE
    /\ pc = "start"
    /\ \E op \in {"add", "double"}, p1 \in CurvePoints, p2 \in CurvePoints,
          lib \in CurveLibs :
          /\ op = "add" => p1[1] # p2[1]
          /\ op = "double" => p2 = p1
          /\ inp = [op |-> op, p1 |-> p1, p2 |-> p2, lib |-> lib]
    /\ out = [p1 |-> NoPoint, p2 |-> NoPoint, rec |-> NoPoint]

RelLoadP1 ==
    /\ pc = "start"
    /\ \E r \in {load_private_point_unchecked(Cur, inp.p1)} :
          /\ Commit(r.st) /\ out' = [out EXCEPT !.p1 = r.res]
          /\ pc' = After(r, IF inp.op = "add" THEN "p2" ELSE "double")
    /\ UNCHANGED inp

RelLoadP2 ==
    /\ pc = "p2"
    /\ \E r \in {load_private_point_unchecked(Cur, inp.p2)} :
          Commit(r.st) /\ out' = [out EXCEPT !.p2 = r.res] /\ pc' = After(r, "add")
    /\ UNCHANGED inp

RelAdd ==
    /\ pc = "add"
    /\ \E r \in {add_assigned_points(Cur, out.p1, out.p2)} :
          Commit(r.st) /\ out' = [out EXCEPT !.rec = r.res] /\ pc' = After(r, "laid")
    /\ UNCHANGED inp

RelDouble ==
    /\ pc = "double"
    /\ \E r \in {double_assigned_point(Cur, out.p1)} :
          Commit(r.st) /\ out' = [out EXCEPT !.rec = r.res] /\ pc' = After(r, "laid")
    /\ UNCHANGED inp

\* another assignment of the result row
RelReassign ==
    /\ pc = "laid"
    /\ \E x \in F, y \in F :
          Commit(SetCell(SetCell(Cur, out.rec.x, x), out.rec.y, y))
    /\ pc' = "reassigned"
    /\ UNCHANGED <<inp, out>>

NextRel == RelLoadP1 \/ RelLoadP2 \/ RelAdd \/ RelDouble \/ RelReassign

SpecRel == InitRel /\ [][NextRel]_vars

\* C25: every assignment that satisfies the EC-add relation on rows
\* (p1, p2, p3) and the on-curve check on p3, for p1 and p2 on the curve
\* with different x-coordinates, has p3 = p1 + p2; no other p3 satisfies
\* the constraints.
C25_AddRelationForcesSum ==
    (pc \in {"laid", "reassigned"} /\ inp.op = "add" /\ Verifies(Cur)) =>
        witness(Cur, out.rec) = GroupAdd(inp.p1, inp.p2)

\* what the constraints do force: p3 is p1 + p2, -p1 or -p2
C25_AddRelationForcesOneOfThree ==
    (pc \in {"laid", "reassigned"} /\ inp.op = "add" /\ Verifies(Cur)) =>
        witness(Cur, out.rec)
            \in {GroupAdd(inp.p1, inp.p2), PointNeg(inp.p1), PointNeg(inp.p2)}

\* C26: every assignment that satisfies the EC-double relation on rows
\* (p1, p3) and the on-curve check on p3, for p1 on the curve with
\* y1 # 0, has p3 = p1 + p1; no other p3 satisfies the constraints.
C26_DoubleRelationForcesDouble ==
    (pc \in {"laid", "reassigned"} /\ inp.op = "double" /\ inp.p1[2] # 0
        /\ Verifies(Cur)) =>
        witness(Cur, out.rec) = GroupAdd(inp.p1, inp.p1)

\* what the constraints do force: p3 is p1 + p1 or -p1
C26_DoubleRelationForcesOneOfTwo ==
    (pc \in {"laid", "reassigned"} /\ inp.op = "double" /\ Verifies(Cur)) =>
        witness(Cur, out.rec) \in {GroupAdd(inp.p1, inp.p1), PointNeg(inp.p1)}

\* C27: on return from add_assigned_points, double_assigned_point and
\* conditional_point_add the row of the returned point is cursor-1, so
\* that a gadget called next on that point enables its selector on the
\* point's own row.
C27_ReturnedPointAtCursorMinusOne ==
    [][ (Len(out'.calls) = Len(out.calls) + 1 /\ ~panicked'
            /\ out'.calls[Len(out'.calls)].g
                  \in {"add_assigned_points", "double_assigned_point",
                       "conditional_point_add"})
        => out'.points[Len(out'.points)].offset = offset' - 1 ]_vars

\* where the source's two gadgets do leave the point: at cursor-2, above
\* the row of its on-curve check
C27_ReturnedPointAtCursorMinusTwo ==
    [][ (Len(out'.calls) = Len(out.calls) + 1 /\ ~panicked'
            /\ out'.calls[Len(out'.calls)].g
                  \in {"add_assigned_points", "double_assigned_point"})
        => /\ out'.points[Len(out'.points)].offset = offset' - 2
           /\ offset' - 2 \in region'.q2 ]_vars

\* conditional_point_add (SpecCond) returns its point at cursor-1
C27_ConditionalAddAtCursorMinusOne ==
    (pc = "constrain" /\ inp.op = "cond") => out.rec.offset = offset - 1

(***************************************************************************)
(* The host-side helpers of util.rs, each applied to an input.             *)
(***************************************************************************)
\* to_le_bits: the bits of every byte of the encoding, in order
RECURSIVE FlatMapBools(_, _)
FlatMapBools(bytes, i) ==
    IF i > Len(bytes) THEN <<>>
    ELSE byte_to_le_bits(bytes[i]) \o FlatMapBools(bytes, i + 1)

to_le_bits(e) == FlatMapBools(to_repr(e), 1)

\* the scalars tried: every high half below 16 and the one of 4 + 2^13,
\* with low halves at both ends of the range
UtilScalars ==
    {h * Pow2(U128Bits) + l :
        h \in (0 .. 15) \cup {Pow2(13 - ByteBits)},
        l \in (0 .. 7) \cup ((Pow2(U128Bits) - 8) .. (Pow2(U128Bits) - 1))}

UtilInputs(op) ==
    CASE op = "field_decompose_u128" -> UtilScalars
      [] op = "to_le_bits" -> UtilScalars
      [] op = "byte_to_le_bits" -> 0 .. (Pow2(ByteBits) - 1)
      [] op = "decompose_u128" -> U128

InitUtil ==
    /\ region = EmptyRegion
    /\ offset = 0
    /\ panicked = FALSE
    /\ pc = "start"
    /\ \E op \in {"field_decompose_u128", "to_le_bits", "byte_to_le_bits",
                  "decompose_u128"} :
          \E v \in UtilInputs(op) : inp = [op |-> op, v |-> v]
    /\ out = <<>>

UtilFieldDecompose ==
    /\ pc = "start" /\ inp.op = "field_decompose_u128"
    /\ out' = field_decompose_u128(inp.v)
    /\ pc' = "done"
    /\ UNCHANGED <<region, offset, panicked, inp>>

UtilToLeBits ==
    /\ pc = "start" /\ inp.op = "to_le_bits"
    /\ out' = to_le_bits(inp.v)
    /\ pc' = "done"
    /\ UNCHANGED <<region, offset, panicked, inp>>

UtilByteToLeBits ==
    /\ pc = "start" /\ inp.op = "byte_to_le_bits"
    /\ out' = byte_to_le_bits(inp.v)
    /\ pc' = "done"
    /\ UNCHANGED <<region, offset, panicked, inp>>

UtilDecomposeU128 ==
    /\ pc = "start" /\ inp.op = "decompose_u128"
    /\ out' = util_decompose_u128(inp.v)
    /\ pc' = "done"
    /\ UNCHANGED <<region, offset, panicked, inp>>

NextUtil ==
    UtilFieldDecompose \/ UtilToLeBits \/ UtilByteToLeBits \/ UtilDecomposeU128

SpecUtil == InitUtil /\ [][NextUtil]_vars

\* C28: field_decompose_u128(s) returns (high, low), low the first
\* U128Bytes bytes and high the last U128Bytes bytes of the canonical
\* little-endian encoding of s read as little-endian integers, so that
\* high * 2^U128Bits + low is the integer value of s.
C28_FieldDecomposeHighLow ==
    (pc = "done" /\ inp.op = "field_decompose_u128") =>
        /\ out.low = inp.v % Pow2(U128Bits)
        /\ out.high = inp.v \div Pow2(U128Bits)
        /\ out.low \in U128 /\ out.high \in U128
        /\ out.high * Pow2(U128Bits) + out.low = inp.v
        /\ \A i \in 1 .. U128Bytes :
              /\ (out.low \div Pow2(ByteBits * (i - 1))) % Pow2(ByteBits)
                    = to_repr(inp.v)[i]
              /\ (out.high \div Pow2(ByteBits * (i - 1))) % Pow2(ByteBits)
                    = to_repr(inp.v)[U128Bytes + i]

C28_Witness ==
    /\ pc = "done" /\ inp.op = "field_decompose_u128"
    /\ inp.v = 5 * Pow2(U128Bits) + 3
    /\ out.high = 5 /\ out.low = 3

\* C30: the bit-extraction helpers are little-endian: byte_to_le_bits(b)
\* returns ByteBits booleans, entry i being bit i of b; to_le_bits(e)
\* returns one boolean per bit of the encoding, entry i being bit i of the
\* integer value of e (only entries 2 and 13 set for 4 + 2^13);
\* util::decompose_u128(a) returns U128Bits values in {0, 1}, entry i
\* being bit i of a.  (Entry i is at index i + 1.)
C30_HelpersLittleEndian ==
    pc = "done" =>
        /\ inp.op = "byte_to_le_bits" =>
              /\ Len(out) = ByteBits
              /\ \A i \in 0 .. ByteBits - 1 :
                    out[i + 1] = (ShiftRight(inp.v, i) % 2 = 1)
        /\ inp.op = "to_le_bits" =>
              /\ Len(out) = ByteBits * 2 * U128Bytes
              /\ \A i \in 0 .. Len(out) - 1 :
                    out[i + 1] = (ShiftRight(inp.v, i) % 2 = 1)
              /\ inp.v = 4 + Pow2(13) =>
                    {i \in 0 .. Len(out) - 1 : out[i + 1]} = {2, 13}
        /\ inp.op = "decompose_u128" =>
              /\ Len(out) = U128Bits
              /\ \A i \in 0 .. U128Bits - 1 :
                    /\ out[i + 1] \in {0, 1}
                    /\ out[i + 1] = ShiftRight(inp.v, i) % 2

C30_Witness ==
    /\ pc = "done" /\ inp.op = "to_le_bits" /\ inp.v = 4 + Pow2(13)
    /\ out[3] /\ out[14] /\ ~out[1] /\ ~out[13]

C30_WitnessByte ==
    /\ pc = "done" /\ inp.op = "byte_to_le_bits" /\ inp.v = 4
    /\ out = <<FALSE, FALSE, TRUE, FALSE, FALSE, FALSE, FALSE, FALSE>>

(***************************************************************************)
(* Rows without a selector: a few calls of the gadgets that write rows     *)
(* without enabling a selector, mixed with gadgets that do enable one,     *)
(* then one row takes other values.                                        *)
(***************************************************************************)
MaxFreeCalls == 2

FreeFields == {1, P - 1}

\* the values the b cell of a row is set to afterwards
FreeSeconds == {0, 7, P - 1}

FreePoints == {Generator, Identity}

InitFree ==
    /\ region = EmptyRegion
    /\ offset = 0
    /\ panicked = FALSE
    /\ pc = "run"
    /\ \E lib \in CurveLibs : inp = [lib |-> lib, n |-> 0]
    /\ out = [call |-> "none", pre |-> Cur]

\* calls are made until MaxFreeCalls of them returned or one panicked
FreeCanCall == pc = "run" /\ inp.n < MaxFreeCalls

\* one call of gadget g returning r
FreeCall(g, r) ==
    /\ Commit(r.st)
    /\ inp' = [inp EXCEPT !.n = @ + 1]
    /\ out' = [call |-> g, pre |-> Cur]
    /\ pc' = After(r, "run")

FreeLoadField ==
    /\ FreeCanCall
    /\ \E f \in FreeFields :
          \E r \in {load_private_field(Cur, f)} : FreeCall("load_private_field", r)

FreeLoadPointUnchecked ==
    /\ FreeCanCall
    /\ \E p \in FreePoints :
          \E r \in {load_private_point_unchecked(Cur, p)} :
              FreeCall("load_private_point_unchecked", r)

FreePad ==
    /\ FreeCanCall
    /\ \E r \in {pad(Cur)} : FreeCall("pad", r)

\* gadgets that enable selectors: the rows they constrain are not free
FreeLoadPoint ==
    /\ FreeCanCall
    /\ \E p \in FreePoints :
          \E r \in {load_private_point(Cur, p)} : FreeCall("load_private_point", r)

FreeAdd ==
    /\ FreeCanCall
    /\ \E x \in FreeFields :
          \E r \in {add(Cur, x, 1)} : FreeCall("add", r)

\* another assignment of the two advice cells of one row
FreeReassign ==
    /\ pc = "run" /\ offset > 0
    /\ \E r \in 0 .. offset - 1, x \in F, y \in FreeSeconds :
          Commit(SetCell(SetCell(Cur, CellAt("a", r), x), CellAt("b", r), y))
    /\ pc' = "reassigned"
    /\ UNCHANGED <<inp, out>>

NextFree ==
    \/ FreeLoadField \/ FreeLoadPointUnchecked \/ FreePad
    \/ FreeLoadPoint \/ FreeAdd \/ FreeReassign

SpecFree == InitFree /\ [][NextFree]_vars

\* the rows no selector is enabled on
FreeRows(S) ==
    {r \in Rows(S) : r \notin (S.reg.q_ec_disabled \cup S.reg.q1 \cup S.reg.q2)}

\* C29: load_field is a pure commitment: it enables no selector and adds
\* no copy constraint; on every row where no selector is enabled (the rows
\* written by load_field, load_point_unchecked or pad) the aggregated gate
\* evaluates to zero whatever the advice cells of its window hold, so such
\* a row never causes rejection by itself.
C29_LoadFieldPureCommitment ==
    /\ (out.call = "load_private_field") =>
          /\ region.q_ec_disabled = out.pre.reg.q_ec_disabled
          /\ region.q1 = out.pre.reg.q1
          /\ region.q2 = out.pre.reg.q2
          /\ region.copies = out.pre.reg.copies
          /\ region.consts = out.pre.reg.consts
    /\ (out.call \in {"load_private_field", "load_private_point_unchecked", "pad"}
          /\ ~panicked) =>
          (out.pre.offset .. offset - 1) \subseteq FreeRows(Cur)
    /\ \A r \in FreeRows(Cur) :
          native_ec(Cur, r) = 0 /\ native_ec_six(Cur, r) = 0

\* a row written by load_field holds values the on-curve polynomial does
\* not vanish on, next to a row that carries a selector
C29_Witness ==
    /\ pc = "reassigned" /\ out.call = "load_private_field"
    /\ offset - 1 \in FreeRows(Cur)
    /\ FreeRows(Cur) # Rows(Cur) \ {offset}
    /\ A(Cur, offset - 1) = 5 /\ B(Cur, offset - 1) = 7
    /\ on_curve_gate(Cur, offset - 1) # 0

====
